---- MODULE Spec2Model ----
(***************************************************************************)
(* A model of the turn client (package turn: Client.Check,                 *)
(* Client.CurrentUser, Client.doWithRetry) and of the part of the checkurl *)
(* command that wraps Client.Check.                                        *)
(*                                                                         *)
(* Text is a sequence of characters; a character is a one-character string *)
(* or one of the named tokens below.  An HTTP call is followed step by     *)
(* step: the retried function of doWithRetry dispatches the request        *)
(* (Dispatch), the transport answers (Receive), the retry loop waits       *)
(* between attempts (TimerFires / CtxObserved) and the caller of           *)
(* doWithRetry reads and decodes the final response (Respond).             *)
(***************************************************************************)
EXTENDS Integers, Sequences, FiniteSets, TLC

VARIABLES
    client,     \* the Client struct: baseURL, authToken, noCache, includeEvents
    op,         \* the method in progress: "none", "Check" or "CurrentUser"
    args,       \* the arguments of the call in progress
    pc,         \* where the call is
    ctx,        \* the caller's context: "live", "canceled" or "deadline"
    reqBuf,     \* the bytes.Buffer behind the request body: "unread"/"drained"/"nobody"
    attempts,   \* invocations of the function handed to retry.Do
    sent,       \* the requests handed to the network, oldest first
    resp,       \* the *http.Response variable of doWithRetry
    errorLog,   \* the errors retry.Do has collected, one per failed attempt
    logs,       \* the calls of c.logger.Printf made during the call
    result,     \* the first value the call returns
    err,        \* the error the call returns
    cli,        \* the checkurl command: its position and what it reports
    setup,      \* how the client was made: the constructor, its arguments and
                \* its error, and the token, cache flag and logger last handed to it
    delays,     \* the waits retry.Do has completed in this call, in ms
    doc,        \* a CheckResponse taken through json.Marshal and json.Unmarshal
    san,        \* a text taken through sanitizeForLog
    srv,        \* the local server checkurl starts: the probe listener, the
                \* subprocess and the signals sent to it
    other       \* the call of a second goroutine on the same Client, suspended

vars == <<client, op, args, pc, ctx, reqBuf, attempts, sent, resp, errorLog,
          logs, result, err, cli, setup, delays, doc, san, srv, other>>

callVars == <<op, args, pc, reqBuf, attempts, sent, resp, errorLog, logs,
              result, err, delays>>

Min(a, b) == IF a < b THEN a ELSE b

Max(a, b) == IF a > b THEN a ELSE b

----------------------------------------------------------------------------
\* Program constants.

maxResponseSize == 1048576

retryAttempts == 4

StatusOK == 200

StatusTooManyRequests == 429

logMaxLength == 100

errorMaxLength == 500

\* Bounds of the model.

\* Response bodies are up to MaxExtra bytes longer than maxResponseSize.
MaxExtra == 1

\* Timestamps are the instants 0..MaxInstant; 0 is the zero time.Time.
MaxInstant == 1

----------------------------------------------------------------------------
\* Text.

\* A byte that is not part of any valid UTF-8 encoding.
BadByte == "0xFF"

\* The Unicode replacement character.
RuneError == "U+FFFD"

ControlChars == {"\n", "\r", "\t"}

\* The PR URLs a caller passes: empty, plain, and one that is not valid UTF-8.
InputURLs == {<< >>, <<"a">>, <<BadByte>>}

\* The users a caller passes: empty, plain, and one with a line break in it.
InputUsers == {<< >>, <<"a">>, <<"\n">>}

ValidUTF8(s) == \A i \in 1..Len(s) : s[i] # BadByte

\* encoding/json writes these characters as escape sequences (HTML escaping
\* is on by default); every other character is written as itself.
JSONEscaped == ControlChars \cup {"<", ">", "&", "\"", "\\"}

\* json.Encoder on a string: invalid UTF-8 is coerced to U+FFFD.
jsonEncodeString_NoCoerce(s) ==
    [i \in 1..Len(s) |-> [esc |-> s[i] \in JSONEscaped, ch |-> s[i]]]

jsonEncodeString_Drop(s) == << >>

jsonEncodeString(s) ==
    [i \in 1..Len(s) |->
        IF s[i] = BadByte
        THEN [esc |-> TRUE, ch |-> RuneError]
        ELSE [esc |-> s[i] \in JSONEscaped, ch |-> s[i]]]

\* What a JSON decoder makes of the encoded string.
jsonDecodeString(t) == [i \in 1..Len(t) |-> t[i].ch]

----------------------------------------------------------------------------
\* Time: an instant and the offset of the location it is shown in.

Offsets == {0, 1}

Times == [inst : 0..MaxInstant, off : Offsets]

IsZero(t) == t.inst = 0

UTC(t) == [inst |-> t.inst, off |-> 0]

\* time.Time.MarshalJSON: the wall clock of the location and its offset.
jsonEncodeTime_NoOffset(t) == [wall |-> t.inst + t.off, off |-> 0]

jsonEncodeTime(t) == [wall |-> t.inst + t.off, off |-> t.off]

\* The instant an RFC 3339 text denotes.
jsonTimeInstant(w) == w.wall - w.off

----------------------------------------------------------------------------
\* The Client and the requests it builds.

\* A URL is a sequence of pieces of text: words of letters, ":", "/", " "
\* and "%" (a percent sign that starts no escape).
BaseURL == <<"http", ":", "/", "/", "h">>

DefaultBackend == <<"https", ":", "/", "/", "turn.github.codegroove.app">>

userAgent == <<"turnclient/1.1">>

Tokens == {<< >>, <<"t">>}

NoArgs == [prURL |-> << >>, user |-> << >>, updatedAt |-> [inst |-> 0, off |-> 0]]

\* The argument checks at the head of Check: the error text, or "" when the
\* arguments pass.
CheckArgsError_NoUser(prURL, user, updatedAt) ==
    IF prURL = << >> THEN "PR URL cannot be empty"
    ELSE IF IsZero(updatedAt) THEN "updated_at timestamp cannot be zero"
    ELSE ""

CheckArgsError(prURL, user, updatedAt) ==
    IF prURL = << >> THEN "PR URL cannot be empty"
    ELSE IF user = << >> THEN "user cannot be empty"
    ELSE IF IsZero(updatedAt) THEN "updated_at timestamp cannot be zero"
    ELSE ""

\* An HTTP request body: absent (http.NoBody, or a drained buffer) or the
\* JSON text of a CheckRequest.  include_events is omitted when false.
EmptyBody ==
    [present |-> FALSE, url |-> << >>, user |-> << >>,
     updated_at |-> [wall |-> 0, off |-> 0], include_events |-> FALSE]

\* json.NewEncoder(&buf).Encode(CheckRequest{...}).
CheckRequestJSON(c, a) ==
    [present |-> TRUE,
     url |-> jsonEncodeString(a.prURL),
     user |-> jsonEncodeString(a.user),
     updated_at |-> jsonEncodeTime(UTC(a.updatedAt)),
     include_events |-> c.includeEvents]

\* The endpoint of Check.
CheckEndpoint_Root(c) == c.baseURL

CheckEndpoint(c) == c.baseURL \o <<"/v1/validate">>

\* The headers Check sets.
CheckHeaders_NoAuth(c) ==
    LET base == [ContentType |-> <<"application/json">>,
                 UserAgent |-> userAgent,
                 Accept |-> <<"application/json">>]
    IN  IF c.noCache THEN base @@ [CacheControl |-> <<"no-cache">>] ELSE base

CheckHeaders_CacheAlways(c) ==
    LET base == [ContentType |-> <<"application/json">>,
                 UserAgent |-> userAgent,
                 Accept |-> <<"application/json">>,
                 CacheControl |-> <<"no-cache">>]
    IN  IF c.authToken # << >>
        THEN base @@ [Authorization |-> <<"Bearer ">> \o c.authToken]
        ELSE base

CheckHeaders(c) ==
    LET base == [ContentType |-> <<"application/json">>,
                 UserAgent |-> userAgent,
                 Accept |-> <<"application/json">>]
        auth == IF c.authToken # << >>
                THEN base @@ [Authorization |-> <<"Bearer ">> \o c.authToken]
                ELSE base
    IN  IF c.noCache THEN auth @@ [CacheControl |-> <<"no-cache">>] ELSE auth

\* The request of Check as the transport sends it; `body` is what is left in
\* the request's buffer.
CheckHTTPRequest(c, body) ==
    [method |-> "POST", url |-> CheckEndpoint(c), header |-> CheckHeaders(c),
     body |-> body]

\* The request of CurrentUser.
UserHTTPRequest(c) ==
    [method |-> "GET", url |-> <<"https://api.github.com/user">>,
     header |-> [Accept |-> <<"application/vnd.github.v3+json">>,
                 UserAgent |-> userAgent,
                 Authorization |-> <<"Bearer ">> \o c.authToken],
     body |-> EmptyBody]

----------------------------------------------------------------------------
\* Responses.

\* The length of a short response body.
SmallBody == 20

BodyLens == {SmallBody} \cup { maxResponseSize + k : k \in 0..MaxExtra }

Statuses == {200, 404, 429, 500}

\* What a response body holds: no JSON at all, or a JSON document with the
\* number of entries of its action mapping and its login field.
Contents ==
    { [json |-> FALSE, actions |-> 0, login |-> << >>],
      [json |-> TRUE, actions |-> 0, login |-> << >>],
      [json |-> TRUE, actions |-> 1, login |-> <<"u">>] }

\* The text of a body of len bytes: `bad` bytes that are no valid UTF-8, then
\* `lead` one-byte characters, then `wide` two-byte characters, then one-byte
\* characters to the end.
Ascii == [bad |-> 0, lead |-> 0, wide |-> 0]

\* resp == nil.
NoResp ==
    [status |-> 0, len |-> 0, content |-> [json |-> FALSE, actions |-> 0, login |-> << >>],
     read |-> 0, open |-> FALSE, broken |-> FALSE, text |-> Ascii]

\* The statuses the retried function turns into an error.
Retryable_Any(status) == status # StatusOK

Retryable_No429(status) == status >= 500

Retryable(status) == status >= 500 \/ status = StatusTooManyRequests

\* io.LimitReader(resp.Body, maxResponseSize) read to its end: the bytes read
\* of a body of `len` bytes.
LimitRead_NoCap(len) == len

LimitRead(len) == IF len < maxResponseSize THEN len ELSE maxResponseSize

----------------------------------------------------------------------------
\* Errors and results.

\* The part of a response body an error message carries: its characters and
\* bytes, whether "... (truncated)" follows it, and whether it ends inside a
\* character.
NoExcerpt == [runes |-> 0, bytes |-> 0, marker |-> FALSE, split |-> FALSE]

NoErr == [kind |-> "nil", status |-> 0, log |-> << >>, body |-> NoExcerpt]

Error(kind) == [kind |-> kind, status |-> 0, log |-> << >>, body |-> NoExcerpt]

\* A status other than 200 taken for no error.
StatusError_Swallowed(kind, status, msg) == NoErr

\* fmt.Errorf("... failed with status %d: %s", resp.StatusCode, msg).
StatusError(kind, status, msg) ==
    [kind |-> kind, status |-> status, log |-> << >>, body |-> msg]

\* fmt.Errorf("send request: %w", err) around what retry.Do returned.
SendError(log) ==
    [kind |-> "send request", status |-> 0, log |-> log, body |-> NoExcerpt]

\* The errors of single attempts.
NetError == [kind |-> "transport", status |-> 0]

CtxError(c) == [kind |-> "context " \o c, status |-> 0]

\* The transport refuses a request with a header value it cannot send.
HeaderError == [kind |-> "invalid header field value", status |-> 0]

ServerError(status) == [kind |-> "server returned status", status |-> status]

NilResult == [nil |-> TRUE, actions |-> 0, login |-> << >>]

\* json.Unmarshal(body, &result) on the bytes read: a document cut short by
\* the limit does not parse.
Unmarshal_Lenient(r) == TRUE

Unmarshal(r) == r.content.json /\ r.read = r.len

----------------------------------------------------------------------------
\* Diagnostics: one entry per call of c.logger.Printf.

LogLine(kind, a, b, n) == [kind |-> kind, a |-> a, b |-> b, n |-> n]

\* The bytes of the UTF-8 encoding of a character.
Width(ch) == IF ch = RuneError THEN 3 ELSE IF ch = "é" THEN 2 ELSE 1

RECURSIVE ByteLen(_)
ByteLen(s) == IF s = << >> THEN 0 ELSE Width(Head(s)) + ByteLen(Tail(s))

\* []rune(s): every invalid byte becomes U+FFFD.
Runes(s) == [i \in 1..Len(s) |-> IF s[i] = BadByte THEN RuneError ELSE s[i]]

\* The PR URL as Check logs it: cut to logMaxLength runes.
LogURL(prURL) ==
    IF ByteLen(prURL) > logMaxLength /\ Len(Runes(prURL)) > logMaxLength
    THEN SubSeq(Runes(prURL), 1, logMaxLength) \o <<".", ".", ".">>
    ELSE prURL

\* Check logging the headers of its request with the endpoint.
CheckPrologue_Headers(c, a) ==
    << LogLine("checking PR", LogURL(a.prURL), a.user, 0),
       LogLine("request JSON", << >>, << >>, 0),
       LogLine("sending request", CheckEndpoint(c), c.authToken, 0) >>

\* What Check logs before it enters the retry loop.
CheckPrologue(c, a) ==
    << LogLine("checking PR", LogURL(a.prURL), a.user, 0),
       LogLine("request JSON", << >>, << >>, 0),
       LogLine("sending request", CheckEndpoint(c), << >>, 0) >>

RetryLines(ls) == SelectSeq(ls, LAMBDA l : l.kind = "retrying request")

----------------------------------------------------------------------------
\* The state after construction: NewClient(BaseURL), no call in progress.

\* url.Parse.  A scheme is a run of letters before the first ":"; a ":" at
\* the head is an error; after a scheme, text that does not start with "/" is
\* opaque and not looked at; "//" starts the authority, which ends at the
\* next "/", and a space or a stray "%" in it is an error; a stray "%" in the
\* path is an error, a space is not.
Marks == {":", "/", " ", "%"}

ToLower(t) == IF t = "HTTP" THEN "http" ELSE t

\* The first position from `from` on where s holds a piece of T, or
\* Len(s) + 1.
Find(s, from, T) ==
    LET I == {i \in from..Len(s) : s[i] \in T}
    IN  IF I = {} THEN Len(s) + 1 ELSE CHOOSE i \in I : \A j \in I : i <= j

Has(s, t) == \E i \in 1..Len(s) : s[i] = t

ParseError == [ok |-> FALSE, scheme |-> << >>, host |-> << >>]

Parsed(scheme, host) == [ok |-> TRUE, scheme |-> scheme, host |-> host]

URLParse(u) ==
    LET k == Find(u, 1, Marks)
        hasScheme == k > 1 /\ k <= Len(u) /\ u[k] = ":"
        scheme == IF hasScheme THEN [i \in 1..(k - 1) |-> ToLower(u[i])] ELSE << >>
        rest == IF hasScheme THEN SubSeq(u, k + 1, Len(u)) ELSE u
        slash == Find(rest, 1, {"/"})
        end == Find(rest, 3, {"/"})
        authority == SubSeq(rest, 3, end - 1)
        path == SubSeq(rest, end, Len(rest))
    IN  IF u # << >> /\ u[1] = ":" THEN ParseError
        ELSE IF rest = << >> \/ rest[1] # "/"
        THEN IF hasScheme THEN Parsed(scheme, << >>)
             ELSE IF Has(SubSeq(rest, 1, slash - 1), ":") \/ Has(rest, "%")
             THEN ParseError
             ELSE Parsed(scheme, << >>)
        ELSE IF Len(rest) >= 2 /\ rest[2] = "/"
                /\ (hasScheme \/ ~(Len(rest) >= 3 /\ rest[3] = "/"))
        THEN IF Has(authority, " ") \/ Has(authority, "%") \/ Has(path, "%")
             THEN ParseError
             ELSE Parsed(scheme, authority)
        ELSE IF Has(rest, "%") THEN ParseError
        ELSE Parsed(scheme, << >>)

HTTPSchemes == {<<"http">>, <<"https">>}

\* strings.TrimRight(s, "/").
TrimRight_None(s) == s

RECURSIVE TrimRight(_)
TrimRight(s) ==
    IF s # << >> /\ s[Len(s)] = "/" THEN TrimRight(SubSeq(s, 1, Len(s) - 1)) ELSE s

\* A nil *Client.
NilClient ==
    [nil |-> TRUE, baseURL |-> << >>, authToken |-> << >>, noCache |-> FALSE,
     includeEvents |-> FALSE, logger |-> "nil"]

Made(c) == [client |-> c, err |-> ""]

Failed(text) == [client |-> NilClient, err |-> text]

\* NewClient(baseURL): the client and the error it returns ("" for nil).
NewClient_AnyScheme(baseURL) ==
    IF baseURL = << >> THEN Failed("base URL cannot be empty")
    ELSE IF ~URLParse(baseURL).ok THEN Failed("invalid base URL")
    ELSE Made([nil |-> FALSE, baseURL |-> TrimRight(baseURL), authToken |-> << >>,
               noCache |-> FALSE, includeEvents |-> FALSE, logger |-> "discard"])

NewClient(baseURL) ==
    IF baseURL = << >> THEN Failed("base URL cannot be empty")
    ELSE IF ~URLParse(baseURL).ok THEN Failed("invalid base URL")
    ELSE IF URLParse(baseURL).scheme \notin HTTPSchemes
    THEN Failed("base URL must use http or https")
    ELSE Made([nil |-> FALSE, baseURL |-> TrimRight(baseURL), authToken |-> << >>,
               noCache |-> FALSE, includeEvents |-> FALSE, logger |-> "discard"])

NewDefaultClient == NewClient(DefaultBackend)

\* The client of NewClient(BaseURL).
BaseClient == NewClient(BaseURL).client

\* An Option: WithBackend(url), WithLogger(logger), WithAuthToken(token),
\* WithNoCache(noCache).
Option(kind, url, logger, token, noCache) ==
    [kind |-> kind, url |-> url, logger |-> logger, token |-> token,
     noCache |-> noCache]

WithBackend(url) == Option("WithBackend", url, "nil", << >>, FALSE)

WithLogger(logger) == Option("WithLogger", << >>, logger, << >>, FALSE)

WithAuthToken(token) == Option("WithAuthToken", << >>, "nil", token, FALSE)

WithNoCache(noCache) == Option("WithNoCache", << >>, "nil", << >>, noCache)

\* opt(c).
ApplyOption(c, o) ==
    CASE o.kind = "WithBackend" -> [c EXCEPT !.baseURL = TrimRight(o.url)]
      [] o.kind = "WithLogger" ->
            IF o.logger # "nil" THEN [c EXCEPT !.logger = o.logger] ELSE c
      [] o.kind = "WithAuthToken" -> [c EXCEPT !.authToken = o.token]
      [] o.kind = "WithNoCache" -> [c EXCEPT !.noCache = o.noCache]

\* for _, opt := range opts { opt(c) }.
RECURSIVE ApplyOptions(_, _)
ApplyOptions(c, opts) ==
    IF opts = << >> THEN c
    ELSE ApplyOptions(ApplyOption(c, Head(opts)), Tail(opts))

\* New(opts...): the client and the error it returns.
New_NoRevalidation(opts) ==
    LET first == NewClient(DefaultBackend)
    IN  IF first.err # "" THEN first ELSE Made(ApplyOptions(first.client, opts))

New(opts) ==
    LET first == NewClient(DefaultBackend)
        originalURL == first.client.baseURL
        c == ApplyOptions(first.client, opts)
    IN  IF first.err # "" THEN first
        ELSE IF c.baseURL # originalURL /\ ~URLParse(c.baseURL).ok
        THEN Failed("invalid base URL")
        ELSE IF c.baseURL # originalURL /\ URLParse(c.baseURL).scheme \notin HTTPSchemes
        THEN Failed("base URL must use http or https")
        ELSE Made(c)

NoSetup ==
    [by |-> "none", baseURL |-> << >>, opts |-> << >>, err |-> "",
     token |-> << >>, noCache |-> FALSE, events |-> FALSE, logger |-> "none"]

BaseSetup == [NoSetup EXCEPT !.by = "NewClient", !.baseURL = BaseURL]

\* The checkurl process before main has run: where it is, whether it has a
\* signal handler (the local backend), the PR URL argument, how far main
\* got ("usage", "url", "setup" or "check"), whether turn.NewClient gave a
\* client, what run made of the Check outcome, the error main prints, what
\* went to standard output and the exit code.
CliOff ==
    [pc |-> "off", local |-> FALSE, prURL |-> << >>, stage |-> "", made |-> FALSE,
     report |-> "", error |-> "", stdout |-> "", code |-> 0]

\* No document has been marshalled.
NoDoc == [pc |-> "none", value |-> << >>, json |-> << >>, decoded |-> << >>]

\* checkurl has started no local server.
NoServer == [pc |-> "none", listener |-> "none", proc |-> "none", signals |-> << >>]

\* No text has been sanitized.
NoText == [pc |-> "none", input |-> << >>, output |-> << >>]

\* A goroutine that is in no call.
NoCall ==
    [op |-> "none", args |-> NoArgs, pc |-> "idle", reqBuf |-> "nobody",
     attempts |-> 0, sent |-> << >>, resp |-> NoResp, errorLog |-> << >>,
     logs |-> << >>, result |-> NilResult, err |-> NoErr, delays |-> << >>]

Idle ==
    /\ op = "none"
    /\ args = NoArgs
    /\ pc = "idle"
    /\ reqBuf = "nobody"
    /\ attempts = 0
    /\ sent = << >>
    /\ resp = NoResp
    /\ errorLog = << >>
    /\ logs = << >>
    /\ result = NilResult
    /\ err = NoErr
    /\ delays = << >>

Init ==
    /\ client = BaseClient
    /\ setup = BaseSetup
    /\ ctx = "live"
    /\ cli = CliOff
    /\ doc = NoDoc
    /\ san = NoText
    /\ srv = NoServer
    /\ other = NoCall
    /\ Idle

CtxDone == ctx # "live"

----------------------------------------------------------------------------
\* Setters.  They are called during setup, not while a call runs.

SetAuthToken(token) ==
    /\ pc = "idle" /\ cli.pc = "off"
    /\ ~client.nil
    /\ client' = [client EXCEPT !.authToken = token]
    /\ setup' = [setup EXCEPT !.token = token]
    /\ UNCHANGED <<doc, san, srv, other, callVars, ctx, cli>>

SetNoCache(noCache) ==
    /\ pc = "idle" /\ cli.pc = "off"
    /\ ~client.nil
    /\ client' = [client EXCEPT !.noCache = noCache]
    /\ setup' = [setup EXCEPT !.noCache = noCache]
    /\ UNCHANGED <<doc, san, srv, other, callVars, ctx, cli>>

\* SetLogger storing whatever it is given.
SetLogger_Unchecked(logger) ==
    /\ pc = "idle" /\ cli.pc = "off"
    /\ ~client.nil
    /\ client' = [client EXCEPT !.logger = logger]
    /\ setup' = [setup EXCEPT !.logger = logger]
    /\ UNCHANGED <<doc, san, srv, other, callVars, ctx, cli>>

SetLogger(logger) ==
    /\ pc = "idle" /\ cli.pc = "off"
    /\ ~client.nil
    /\ client' = IF logger # "nil" THEN [client EXCEPT !.logger = logger] ELSE client
    /\ setup' = [setup EXCEPT !.logger = logger]
    /\ UNCHANGED <<doc, san, srv, other, callVars, ctx, cli>>

IncludeEvents ==
    /\ pc = "idle" /\ cli.pc = "off"
    /\ ~client.nil
    /\ client' = [client EXCEPT !.includeEvents = TRUE]
    /\ setup' = [setup EXCEPT !.events = TRUE]
    /\ UNCHANGED <<doc, san, srv, other, callVars, ctx, cli>>

----------------------------------------------------------------------------
\* retry.Do, as doWithRetry configures it: Context(ctx), Attempts(4),
\* OnRetry(log).  The loop calls the function; a nil return ends it; an
\* error is recorded and reported to OnRetry, and unless that was attempt
\* number retryAttempts the loop waits for the delay or for ctx.Done().

\* retry.Do returns before the first attempt when ctx is already done.
EnterRetry ==
    IF CtxDone
    THEN /\ pc' = "done"
         /\ err' = SendError(<<CtxError(ctx)>>)
    ELSE /\ pc' = "attempt"
         /\ err' = NoErr

\* The attempt budget is used up after this failed attempt.
LastAttempt_Five(n) == n = retryAttempts + 1

LastAttempt_Three(n) == n = retryAttempts - 1

LastAttempt(n) == n = retryAttempts

\* AttemptFailed with no OnRetry diagnostic.
AttemptFailed_Silent(e, n) ==
    /\ errorLog' = Append(errorLog, e)
    /\ logs' = logs
    /\ result' = NilResult
    /\ IF LastAttempt(n)
       THEN /\ pc' = "done"
            /\ err' = SendError(Append(errorLog, e))
       ELSE /\ pc' = "backoff"
            /\ err' = NoErr

\* The retried function returned error e on attempt number n.
AttemptFailed(e, n) ==
    /\ errorLog' = Append(errorLog, e)
    /\ logs' = Append(logs, LogLine("retrying request", << >>, << >>, n))
    /\ result' = NilResult
    /\ IF LastAttempt(n)
       THEN /\ pc' = "done"
            /\ err' = SendError(Append(errorLog, e))
       ELSE /\ pc' = "backoff"
            /\ err' = NoErr

----------------------------------------------------------------------------
\* Client.Check up to the retry loop.

StartCheck(prURL, user, updatedAt) ==
    LET a == [prURL |-> prURL, user |-> user, updatedAt |-> updatedAt]
        bad == CheckArgsError(prURL, user, updatedAt)
    IN  /\ op' = "Check"
        /\ args' = a
        /\ attempts' = 0
        /\ sent' = << >>
        /\ resp' = NoResp
        /\ errorLog' = << >>
        /\ delays' = << >>
        /\ result' = NilResult
        /\ IF bad # ""
           THEN /\ pc' = "done"
                /\ err' = Error(bad)
                /\ logs' = << >>
                /\ reqBuf' = "nobody"
           ELSE /\ logs' = CheckPrologue(client, a)
                /\ reqBuf' = "unread"
                /\ EnterRetry

\* Check keeping a mark of the call on the Client.
Check_Marking(prURL, user, updatedAt) ==
    /\ pc = "idle" /\ cli.pc = "off"
    /\ ~client.nil
    /\ StartCheck(prURL, user, updatedAt)
    /\ client' = [client EXCEPT !.noCache = TRUE]
    /\ UNCHANGED <<doc, san, srv, other, ctx, cli, setup>>

Check(prURL, user, updatedAt) ==
    /\ pc = "idle" /\ cli.pc = "off"
    /\ ~client.nil
    /\ StartCheck(prURL, user, updatedAt)
    /\ UNCHANGED <<doc, san, srv, other, client, ctx, cli, setup>>

\* c.authToken == "".
NoToken_Never(c) == FALSE

NoToken(c) == c.authToken = << >>

\* user.Login == "".
EmptyLogin_Never(login) == FALSE

EmptyLogin(login) == login = << >>

\* Client.CurrentUser up to the retry loop.
CurrentUser ==
    /\ pc = "idle" /\ cli.pc = "off"
    /\ ~client.nil
    /\ op' = "CurrentUser"
    /\ args' = NoArgs
    /\ attempts' = 0
    /\ sent' = << >>
    /\ resp' = NoResp
    /\ errorLog' = << >>
    /\ result' = NilResult
    /\ logs' = << >>
    /\ reqBuf' = "nobody"
    /\ IF NoToken(client)
       THEN /\ pc' = "done"
            /\ err' = Error("no auth token set")
       ELSE EnterRetry
    /\ delays' = << >>
    /\ UNCHANGED <<doc, san, srv, other, client, ctx, cli, setup>>

----------------------------------------------------------------------------
\* The function doWithRetry hands to retry.Do, in two steps: the request
\* leaves (Dispatch) and the transport answers (Receive).

\* resp.Body.Close().
Close_Never(r) == r

Close(r) == [r EXCEPT !.open = FALSE]

\* The request carries ctx (http.NewRequestWithContext): Do sends nothing
\* once ctx is done.
DoRefuses_Never == FALSE

DoRefuses == CtxDone

\* httpguts.ValidHeaderFieldValue: no control character other than a tab.
ValidHeaderFieldValue(v) == \A i \in 1..Len(v) : v[i] \notin (ControlChars \ {"\t"})

\* The transport checks the header before it looks at the context; the only
\* header value taken from the caller is the token.
BadHeader == ~ValidHeaderFieldValue(client.authToken)

\* The request as c.httpClient.Do sends it now.  The body of Check's request
\* is a bytes.Buffer, which the first attempt reads to its end.
Request ==
    IF op = "Check"
    THEN CheckHTTPRequest(client,
            IF reqBuf = "unread" THEN CheckRequestJSON(client, args) ELSE EmptyBody)
    ELSE UserHTTPRequest(client)

Dispatch ==
    /\ pc = "attempt"
    /\ attempts' = attempts + 1
    /\ \/ \* The Authorization header cannot be sent: Do fails at once.
          /\ BadHeader
          /\ resp' = NoResp
          /\ AttemptFailed(HeaderError, attempts + 1)
          /\ UNCHANGED <<sent, reqBuf>>
       \/ \* The context is done: Do fails before anything is sent.
          /\ ~BadHeader
          /\ DoRefuses
          /\ resp' = NoResp
          /\ AttemptFailed(CtxError(ctx), attempts + 1)
          /\ UNCHANGED <<sent, reqBuf>>
       \/ \* The buffer is drained but Content-Length is not 0: an HTTP/1
          \* transport fails the request before it is sent.
          /\ ~BadHeader
          /\ ~DoRefuses
          /\ reqBuf = "drained"
          /\ resp' = NoResp
          /\ AttemptFailed(NetError, attempts + 1)
          /\ UNCHANGED <<sent, reqBuf>>
       \/ \* The request leaves with what the buffer still holds.
          /\ ~BadHeader
          /\ ~DoRefuses
          /\ sent' = Append(sent, Request)
          /\ reqBuf' = IF reqBuf = "unread" THEN "drained" ELSE reqBuf
          /\ resp' = Close(resp)
          /\ pc' = "inflight"
          /\ UNCHANGED <<errorLog, logs, result, err>>
    /\ UNCHANGED <<doc, san, srv, other, delays, client, op, args, ctx, cli, setup>>

\* The buffer is drained, the connection is one the transport had used before
\* and nothing of the request was written: the transport takes the body anew
\* from the request's GetBody and sends the request on another connection.
DispatchRewound ==
    /\ pc = "attempt"
    /\ ~BadHeader
    /\ ~DoRefuses
    /\ op = "Check"
    /\ reqBuf = "drained"
    /\ attempts' = attempts + 1
    /\ sent' = Append(sent, CheckHTTPRequest(client, CheckRequestJSON(client, args)))
    /\ resp' = Close(resp)
    /\ pc' = "inflight"
    /\ UNCHANGED <<doc, san, srv, other, delays, client, op, args, ctx, reqBuf, errorLog, logs,
                   result, err, cli, setup>>

\* The response the retried function keeps for its caller.
Kept(s, l, c) ==
    [status |-> s, len |-> l, content |-> c, read |-> 0, open |-> TRUE,
     broken |-> FALSE, text |-> Ascii]

\* The retried function drains a response and leaves it open.
Drained_LeftOpen(s, l, c) ==
    [status |-> s, len |-> l, content |-> c, read |-> LimitRead(l), open |-> TRUE,
     broken |-> FALSE, text |-> Ascii]

\* The response the retried function drains and closes.
Drained(s, l, c) ==
    [status |-> s, len |-> l, content |-> c, read |-> LimitRead(l), open |-> FALSE,
     broken |-> FALSE, text |-> Ascii]

\* The bodies a server sends with a status: only a 200 carries a document.
ContentsOf(s) == IF s = StatusOK THEN Contents ELSE {NoResp.content}

ReceiveOf(statuses, lens) ==
    /\ \/ \* Do returns an error: the network failed or the context ended.
          /\ resp' = NoResp
          /\ AttemptFailed(IF CtxDone THEN CtxError(ctx) ELSE NetError, attempts)
       \/ \* Do returns a response.
          /\ ~CtxDone
          /\ \E s \in statuses, l \in lens :
               \E c \in ContentsOf(s) :
                 IF Retryable(s)
                 THEN /\ resp' = Drained(s, l, c)
                      /\ AttemptFailed(ServerError(s), attempts)
                 ELSE /\ resp' = Kept(s, l, c)
                      /\ pc' = "respond"
                      /\ UNCHANGED <<errorLog, logs, result, err>>
    /\ UNCHANGED <<doc, san, srv, other, delays, client, op, args, ctx, reqBuf, attempts, sent, cli, setup>>

Receive ==
    /\ pc = "inflight"
    /\ ReceiveOf(Statuses, BodyLens)

\* The options of retry.Do that set the wait, in milliseconds.
Delay == 100

MaxDelay == 5000

MaxJitter == 300

\* 2^n.
RECURSIVE Pow2(_)
Pow2(n) == IF n = 0 THEN 1 ELSE 2 * Pow2(n - 1)

\* DelayType: the wait does not grow.
BackOffDelay_Fixed(n) == Delay

\* DelayType(retry.BackOffDelay): the wait after failed attempt n + 1 is
\* the Delay doubled n times.
BackOffDelay(n) == Delay * Pow2(n)

\* The random part of a wait is chosen inside retry.Do: between 0 and
\* MaxJitter, in JitterSteps steps.
JitterSteps == 2

Jitters == {(MaxJitter * k) \div JitterSteps : k \in 0..JitterSteps}

\* The wait after failed attempt n + 1 with random part j, cut at MaxDelay.
WaitTime(n, j) == Min(BackOffDelay(n) + j, MaxDelay)

\* The wait between two attempts: the timer fires ...
TimerFiresOf(jitters) ==
    /\ pc' = "attempt"
    /\ \E j \in jitters : delays' = Append(delays, WaitTime(attempts - 1, j))
    /\ UNCHANGED <<doc, san, srv, other, client, op, args, ctx, reqBuf, attempts, sent, resp,
                   errorLog, logs, result, err, cli, setup>>

TimerFires ==
    /\ pc = "backoff"
    /\ TimerFiresOf({0})

\* retry.Do waiting for the timer alone.
CtxObserved_Never ==
    /\ pc = "backoff"
    /\ FALSE
    /\ UNCHANGED vars

\* ... or ctx.Done() is ready and retry.Do returns.
CtxObserved ==
    /\ pc = "backoff"
    /\ CtxDone
    /\ pc' = "done"
    /\ err' = SendError(Append(errorLog, CtxError(ctx)))
    /\ UNCHANGED <<doc, san, srv, other, delays, client, op, args, ctx, reqBuf, attempts, sent, resp,
                   errorLog, logs, result, cli, setup>>

----------------------------------------------------------------------------
\* After the retry loop: the caller of doWithRetry reads the body of the
\* response it got, interprets it and closes it.  `ok` is whether the body
\* stream delivers its bytes; when the connection breaks the read fails and
\* the response is marked broken.

Broken(r) == Close([r EXCEPT !.broken = TRUE])

\* len([]rune(string(body))) of the bytes read of response r: an invalid
\* byte counts as one character.
RuneCount(r) == r.read - Min(r.text.wide, Max(0, (r.read - r.text.bad - r.text.lead) \div 2))

\* The bytes of the first k characters of the body of r.
PrefixBytes(r, k) == k + Min(r.text.wide, Max(0, k - r.text.bad - r.text.lead))

\* string(rs[:k]): every invalid byte has become U+FFFD, three bytes long.
RecodedBytes(r, k) == PrefixBytes(r, k) + 2 * Min(r.text.bad, k)

\* The whole characters in the first n bytes of the body of r.
WholeRunes(r, n) ==
    LET head == r.text.bad + r.text.lead
    IN  IF n <= head THEN n
        ELSE IF n <= head + 2 * r.text.wide THEN head + ((n - head) \div 2)
        ELSE n - r.text.wide

\* The error message cut after errorMaxLength bytes.
ErrorExcerpt_ByteCut(r) ==
    IF r.read > errorMaxLength
    THEN [runes |-> WholeRunes(r, errorMaxLength), bytes |-> errorMaxLength,
          marker |-> TRUE,
          split |-> PrefixBytes(r, WholeRunes(r, errorMaxLength)) # errorMaxLength]
    ELSE [runes |-> RuneCount(r), bytes |-> r.read, marker |-> FALSE, split |-> FALSE]

\* The body as Check puts it into the error of a status other than 200.
ErrorExcerpt(r) ==
    IF r.read > errorMaxLength /\ RuneCount(r) > errorMaxLength
    THEN [runes |-> errorMaxLength, bytes |-> RecodedBytes(r, errorMaxLength),
          marker |-> TRUE, split |-> FALSE]
    ELSE [runes |-> RuneCount(r), bytes |-> r.read, marker |-> FALSE, split |-> FALSE]

\* string(body): all the bytes read.
WholeBody(r) ==
    [runes |-> RuneCount(r), bytes |-> r.read, marker |-> FALSE, split |-> FALSE]

RespondCheck ==
    /\ pc = "respond"
    /\ op = "Check"
    /\ \E ok \in BOOLEAN :
         LET r == Close([resp EXCEPT !.read = LimitRead(resp.len)])
             received == Append(logs, LogLine("received response", << >>, << >>, resp.status))
         IN  IF ~ok
             THEN /\ resp' = Broken(resp)
                  /\ err' = Error("read response")
                  /\ result' = NilResult
                  /\ logs' = logs
             ELSE /\ resp' = r
                  /\ IF r.status # StatusOK
                     THEN /\ err' = StatusError("api request failed with status", r.status,
                                                ErrorExcerpt(r))
                          /\ result' = NilResult
                          /\ logs' = received
                     ELSE IF ~Unmarshal(r)
                     THEN /\ err' = Error("unmarshal response")
                          /\ result' = NilResult
                          /\ logs' = received
                     ELSE /\ err' = NoErr
                          /\ result' = [nil |-> FALSE, actions |-> r.content.actions,
                                        login |-> << >>]
                          /\ logs' = Append(received,
                                LogLine("check complete", << >>, << >>, r.content.actions))
    /\ pc' = "done"
    /\ UNCHANGED <<doc, san, srv, other, delays, client, op, args, ctx, reqBuf, attempts, sent, errorLog, cli, setup>>

\* json.NewDecoder(resp.Body).Decode reads from the body itself, as far as
\* the document goes; on a body that is no JSON it stops somewhere.
DecoderReads(r) ==
    IF r.content.json THEN {r.len} ELSE {Min(r.len, SmallBody), r.len}

RespondCurrentUser ==
    /\ pc = "respond"
    /\ op = "CurrentUser"
    /\ \E ok \in BOOLEAN :
         IF resp.status # StatusOK
         THEN /\ result' = NilResult
              /\ IF ok
                 THEN /\ resp' = Close([resp EXCEPT !.read = LimitRead(resp.len)])
                      /\ err' = StatusError("github API request failed with status",
                                            resp.status,
                                            WholeBody([resp EXCEPT !.read = LimitRead(resp.len)]))
                 ELSE /\ resp' = Broken(resp)
                      /\ err' = Error("failed to read response body")
         ELSE IF ~ok
         THEN /\ resp' = Broken(resp)
              /\ err' = Error("decode response")
              /\ result' = NilResult
         ELSE \E n \in DecoderReads(resp) :
              /\ resp' = Close([resp EXCEPT !.read = n])
              /\ IF ~resp.content.json
                 THEN /\ err' = Error("decode response")
                      /\ result' = NilResult
                 ELSE IF EmptyLogin(resp.content.login)
                 THEN /\ err' = Error("empty username in GitHub response")
                      /\ result' = NilResult
                 ELSE /\ err' = NoErr
                      /\ result' = [nil |-> FALSE, actions |-> 0,
                                    login |-> resp.content.login]
    /\ pc' = "done"
    /\ UNCHANGED <<doc, san, srv, other, delays, client, op, args, ctx, reqBuf, attempts, sent, errorLog, logs, cli, setup>>

\* The call has returned; the caller goes on, with a new context for the
\* next call.
Return ==
    /\ pc = "done"
    /\ cli.pc = "off"
    /\ op' = "none"
    /\ args' = NoArgs
    /\ pc' = "idle"
    /\ reqBuf' = "nobody"
    /\ attempts' = 0
    /\ sent' = << >>
    /\ resp' = NoResp
    /\ errorLog' = << >>
    /\ logs' = << >>
    /\ result' = NilResult
    /\ err' = NoErr
    /\ ctx' = "live"
    /\ delays' = << >>
    /\ UNCHANGED <<doc, san, srv, other, client, cli, setup>>

\* The caller cancels the context, or its deadline passes.
CancelCtx ==
    /\ ctx = "live"
    /\ pc # "done"
    /\ cli.pc = "off"
    /\ ctx' = "canceled"
    /\ UNCHANGED <<doc, san, srv, other, client, callVars, cli, setup>>

DeadlineExpires ==
    /\ ctx = "live"
    /\ pc # "done"
    /\ cli.pc = "off"
    /\ ctx' = "deadline"
    /\ UNCHANGED <<doc, san, srv, other, client, callVars, cli, setup>>

Next ==
    \/ \E token \in Tokens : SetAuthToken(token)
    \/ \E b \in BOOLEAN : SetNoCache(b)
    \/ IncludeEvents
    \/ \E prURL \in InputURLs, user \in InputUsers, updatedAt \in Times :
         Check(prURL, user, updatedAt)
    \/ CurrentUser
    \/ Dispatch
    \/ Receive
    \/ TimerFires
    \/ CtxObserved
    \/ RespondCheck
    \/ RespondCurrentUser
    \/ Return
    \/ CancelCtx
    \/ DeadlineExpires

Spec == Init /\ [][Next]_vars

----------------------------------------------------------------------------
\* The checkurl command, from the point where run has its client: it calls
\* Check under a context with the request timeout and reports the outcome.
\* With the local backend a signal handler is installed, which cancels that
\* context; otherwise a signal ends the process and nothing is reported.

\* time.Now() in the command.
Now == [inst |-> MaxInstant, off |-> 0]

\* The user the command checks: the --user flag.
CliUser == <<"a">>

\* The path of a URL that url.Parse accepts with an authority: the pieces
\* from the first "/" after the authority on, with escapes decoded.
Unescape(t) == IF t = "%0A" THEN "\n" ELSE t

URLPath(u) ==
    LET k == Find(u, 1, Marks)
        rest == SubSeq(u, k + 1, Len(u))
        end == Find(rest, 3, {"/"})
    IN  [i \in 1..(Len(rest) - end + 1) |-> Unescape(rest[end + i - 1])]

\* Pieces that are runs of decimal digits.
Digits == {"1", "23"}

\* prURLPattern.MatchString(path), the pattern being
\* ^/([^/]+)/([^/]+)/pull/(\d+)(?:/.*)?$ : "." matches no line break, and
\* "$" matches at the end of the text only.
MatchPRPath(path) ==
    LET a == Find(path, 2, {"/"})
        b == Find(path, a + 1, {"/"})
        c == Find(path, b + 1, {"/"})
        d == Find(path, c + 1, {"/"})
    IN  /\ path # << >> /\ path[1] = "/"
        /\ a > 2 /\ a <= Len(path)
        /\ b > a + 1 /\ b <= Len(path)
        /\ c = b + 2 /\ c <= Len(path) /\ path[b + 1] = "pull"
        /\ d > c + 1
        /\ \A i \in (c + 1)..(d - 1) : path[i] \in Digits
        /\ \A i \in d..Len(path) : path[i] # "\n"

GitHubHosts == {<<"github.com">>, <<"www.github.com">>}

\* validatePRURL without the check of the host.
validatePRURL_AnyHost(prURL) ==
    IF prURL = << >> THEN "pr URL cannot be empty"
    ELSE IF ~URLParse(prURL).ok THEN "invalid URL"
    ELSE IF URLParse(prURL).scheme \notin HTTPSchemes
    THEN "url must use http or https scheme"
    ELSE IF ~MatchPRPath(URLPath(prURL))
    THEN "url must be a GitHub pull request URL"
    ELSE ""

\* validatePRURL(prURL): the text of its error, "" for nil.
validatePRURL(prURL) ==
    IF prURL = << >> THEN "pr URL cannot be empty"
    ELSE IF ~URLParse(prURL).ok THEN "invalid URL"
    ELSE IF URLParse(prURL).scheme \notin HTTPSchemes
    THEN "url must use http or https scheme"
    ELSE IF URLParse(prURL).host \notin GitHubHosts
    THEN "url must be a GitHub URL"
    ELSE IF ~MatchPRPath(URLPath(prURL))
    THEN "url must be a GitHub pull request URL"
    ELSE ""

\* The PR URLs given on the command line.
GitHub == <<"https", ":", "/", "/", "github.com">>

PullOne == <<"/", "o", "/", "r", "/", "pull", "/", "1">>

AcceptedURLs ==
    { GitHub \o PullOne,
      <<"HTTP", ":", "/", "/", "www.github.com", "/", "o", " ", "o", "/", "r",
        "/", "pull", "/", "23", "1", "/", "files", "/">>,
      GitHub \o PullOne \o <<"/", BadByte>> }

RejectedURLs ==
    { << >>,
      <<":", "/", "/", "github.com">> \o PullOne,
      <<"ftp", ":", "/", "/", "github.com">> \o PullOne,
      <<"github.com">> \o PullOne,
      <<"https", ":", "/", "/", "h">> \o PullOne,
      <<"https", ":", "/", "/", "github.com", ":", "443">> \o PullOne,
      GitHub,
      GitHub \o <<"/", "o", "/", "r", "/", "issues", "/", "1">>,
      GitHub \o <<"/", "o", "/", "pull", "/", "1">>,
      GitHub \o <<"/", "/", "r", "/", "pull", "/", "1">>,
      GitHub \o <<"/", "o", "/", "r", "/", "pull", "/">>,
      GitHub \o <<"/", "o", "/", "r", "/", "pull", "/", "x">>,
      GitHub \o <<"/", "o", "/", "r", "/", "pull", "/", "1", "x">>,
      GitHub \o <<"/", "x", "/", "o", "/", "r", "/", "pull", "/", "1">>,
      GitHub \o PullOne \o <<"/", "%">>,
      GitHub \o PullOne \o <<"/", "files", "%0A">> }

CliURLs == AcceptedURLs \cup RejectedURLs

\* serverCmd.Process.Signal(syscall.SIGTERM), which run defers and the signal
\* handler calls once a server was started.
Stopped_Never(s) == s

Stopped(s) ==
    IF s.proc # "none" THEN [s EXCEPT !.signals = Append(@, "SIGTERM")] ELSE s

\* main: os.Exit(1) when run returned an error.
ExitCode(runErr) == IF runErr # "" THEN 1 ELSE 0

\* main: flag.NArg() is not 1.
CliUsage(n) ==
    /\ cli.pc = "off"
    /\ pc = "idle"
    /\ n # 1
    /\ cli' = [CliOff EXCEPT !.pc = "reported", !.stage = "usage", !.error = "usage",
                             !.code = 1]
    /\ UNCHANGED <<client, callVars, ctx, setup, doc, san, srv, other>>

\* main: validatePRURL returns an error.
CliBadURL(prURL) ==
    /\ cli.pc = "off"
    /\ pc = "idle"
    /\ validatePRURL(prURL) # ""
    /\ cli' = [CliOff EXCEPT !.pc = "reported", !.prURL = prURL, !.stage = "url",
                             !.error = validatePRURL(prURL), !.code = 1]
    /\ UNCHANGED <<client, callVars, ctx, setup, doc, san, srv, other>>

\* run returns before it calls Check: there is neither a token nor a user,
\* or turn.NewClient refuses the backend.
RunSetupError(token, user, backend) ==
    IF token = << >> /\ user = << >>
    THEN "no GitHub token found and no username specified"
    ELSE IF NewClient(backend).err # "" THEN "creating client"
    ELSE ""

CliSetupFails(prURL, token, user, backend) ==
    /\ cli.pc = "off"
    /\ pc = "idle"
    /\ validatePRURL(prURL) = ""
    /\ RunSetupError(token, user, backend) # ""
    /\ cli' = [CliOff EXCEPT !.pc = "reported", !.prURL = prURL, !.stage = "setup",
                             !.error = RunSetupError(token, user, backend),
                             !.code = ExitCode(RunSetupError(token, user, backend))]
    /\ srv' = Stopped(srv)
    /\ UNCHANGED <<client, callVars, ctx, setup, doc, san, other>>

\* run sets the client up and calls Check.  The PR URL has passed
\* validatePRURL, the user is set and the timestamp is time.Now().
CliCheck(local, token, noCache, prURL, user, updatedAt) ==
    /\ cli.pc = "off"
    /\ pc = "idle"
    /\ ctx = "live"
    /\ client = BaseClient
    /\ validatePRURL(prURL) = ""
    /\ client' = [BaseClient EXCEPT !.authToken = token, !.noCache = noCache]
    /\ cli' = [CliOff EXCEPT !.pc = "check", !.local = local, !.prURL = prURL,
                             !.stage = "check", !.made = TRUE]
    /\ op' = "Check"
    /\ args' = [prURL |-> prURL, user |-> user, updatedAt |-> updatedAt]
    /\ attempts' = 0
    /\ sent' = << >>
    /\ resp' = NoResp
    /\ errorLog' = << >>
    /\ result' = NilResult
    /\ logs' = CheckPrologue(client', args')
    /\ reqBuf' = "unread"
    /\ pc' = "attempt"
    /\ err' = NoErr
    /\ setup' = [setup EXCEPT !.token = token, !.noCache = noCache]
    /\ delays' = << >>
    /\ UNCHANGED <<ctx, doc, san, srv, other>>

\* The signal handler closes `interrupted` and signals the server, and the
\* watching goroutine cancels the request context.
Interrupt ==
    /\ cli.pc = "check"
    /\ cli.local
    /\ ctx = "live"
    /\ ctx' = "canceled"
    /\ srv' = Stopped(srv)
    /\ UNCHANGED <<doc, san, other, client, callVars, cli, setup>>

\* The request timeout passes.
RequestTimeout ==
    /\ cli.pc = "check"
    /\ ctx = "live"
    /\ ctx' = "deadline"
    /\ UNCHANGED <<doc, san, srv, other, client, callVars, cli, setup>>

\* What run returns after Check: it looks at ctx.Err() when Check failed.
\* The functions run deferred are called as it returns.
RunReport(e, c) ==
    IF e = NoErr THEN "ok"
    ELSE IF c = "deadline" THEN "request timed out"
    ELSE IF c = "canceled" THEN "interrupted"
    ELSE "checking PR"

\* len(result.PRState.UnblockAction).
BlockingActions_None(r) == 0

BlockingActions(r) == r.actions

\* The error run returns after Check: `out` is whether standard output
\* takes what enc.Encode writes.
RunError(e, c, r, out) ==
    IF e # NoErr THEN RunReport(e, c)
    ELSE IF ~out THEN "encoding response"
    ELSE IF BlockingActions(r) > 0 THEN "found blocking actions"
    ELSE ""

CliReport ==
    /\ cli.pc = "check"
    /\ pc = "done"
    /\ \E out \in BOOLEAN :
         cli' = [cli EXCEPT !.pc = "reported",
                            !.report = RunReport(err, ctx),
                            !.error = RunError(err, ctx, result, out),
                            !.stdout = IF err = NoErr /\ out THEN "json" ELSE "",
                            !.code = ExitCode(RunError(err, ctx, result, out))]
    /\ srv' = Stopped(srv)
    /\ UNCHANGED <<doc, san, other, client, callVars, ctx, setup>>

\* The process ends.
CliExit ==
    /\ cli.pc = "reported"
    /\ client' = BaseClient
    /\ setup' = BaseSetup
    /\ cli' = CliOff
    /\ op' = "none"
    /\ args' = NoArgs
    /\ pc' = "idle"
    /\ reqBuf' = "nobody"
    /\ attempts' = 0
    /\ sent' = << >>
    /\ resp' = NoResp
    /\ errorLog' = << >>
    /\ logs' = << >>
    /\ result' = NilResult
    /\ err' = NoErr
    /\ ctx' = "live"
    /\ delays' = << >>
    /\ srv' = NoServer
    /\ UNCHANGED <<doc, san, other>>

NextCLI ==
    \/ \E n \in {0, 2} : CliUsage(n)
    \/ \E prURL \in CliURLs : CliBadURL(prURL)
    \/ \E prURL \in CliURLs, token \in Tokens, user \in {<< >>, CliUser},
          backend \in {BaseURL, << >>} :
         CliSetupFails(prURL, token, user, backend)
    \/ \E local \in BOOLEAN, token \in Tokens, noCache \in BOOLEAN,
          prURL \in CliURLs :
         CliCheck(local, token, noCache, prURL, CliUser, Now)
    \/ Dispatch
    \/ Receive
    \/ TimerFires
    \/ CtxObserved
    \/ RespondCheck
    \/ Interrupt
    \/ RequestTimeout
    \/ CliReport
    \/ CliExit

SpecCLI == Init /\ [][NextCLI]_vars

----------------------------------------------------------------------------
\* Check answered with a status other than 200 and a body of text near
\* errorMaxLength.

MaxSlack == 2

MaxBad == 1

MaxLead == 1

MaxWide == 2

TextLens == (errorMaxLength - MaxSlack)..(errorMaxLength + MaxSlack)

Texts == [bad : 0..MaxBad, lead : 0..MaxLead, wide : 0..MaxWide]

ErrorStatuses == {201, 302, 404}

ReceiveText ==
    /\ pc = "inflight"
    /\ ~CtxDone
    /\ \E s \in ErrorStatuses, l \in TextLens, t \in Texts :
         /\ t.bad + t.lead + 2 * t.wide <= l
         /\ resp' = [Kept(s, l, NoResp.content) EXCEPT !.text = t]
    /\ pc' = "respond"
    /\ UNCHANGED <<doc, san, srv, other, delays, client, op, args, ctx, reqBuf, attempts, sent, errorLog, logs,
                   result, err, cli, setup>>

NextText ==
    \/ Check(<<"a">>, CliUser, Now)
    \/ Dispatch
    \/ ReceiveText
    \/ RespondCheck
    \/ Return

SpecText == Init /\ [][NextText]_vars

----------------------------------------------------------------------------
\* Construction: a program makes a client with NewClient, NewDefaultClient
\* or New, sets it up, calls Check, and may drop the client for a new one.

Backends ==
    { << >>,
      BaseURL,
      <<"https", ":", "/", "/", "h", "/">>,
      <<"http", ":", "/", "/", "h", "/", "/">>,
      <<"HTTP", ":", "/", "/", "h">>,
      <<"ftp", ":", "/", "/", "h">>,
      <<"h", " ", "h">>,
      <<"/", "/", "h">>,
      <<":", "/", "/", "h">>,
      <<"http", ":", "/", "/", "h", " ", "h">>,
      <<"http", ":", "/", "/", "h", "/", "%">>,
      <<"http", ":", "/", "/">>,
      <<"https", ":", "/", "/", "/", "h">> }

OptionBackends ==
    { << >>,
      <<"/">>,
      <<"https", ":", "/", "/", "h", "/">>,
      DefaultBackend \o <<"/">>,
      <<"ftp", ":", "/", "/", "h">>,
      <<"http", ":", "/", "/", "h", "/", "%">>,
      <<"http", ":", "/", "/">> }

Loggers == {"nil", "custom"}

Options ==
    {WithBackend(u) : u \in OptionBackends}
        \cup {WithLogger(l) : l \in Loggers}
        \cup {WithAuthToken(t) : t \in Tokens}
        \cup {WithNoCache(b) : b \in BOOLEAN}

MaxOptions == 2

OptionLists == UNION {[1..n -> Options] : n \in 0..MaxOptions}

\* The option of a kind given last: its position in opts, 0 when there is
\* none.
LastOption(opts, kind) ==
    LET I == {i \in 1..Len(opts) : opts[i].kind = kind}
    IN  IF I = {} THEN 0 ELSE CHOOSE i \in I : \A j \in I : j <= i

\* What is known of a construction: the constructor, its arguments, its
\* error, and the token and cache flag its options gave last.
SetupOf(by, baseURL, opts, r) ==
    [by |-> by, baseURL |-> baseURL, opts |-> opts, err |-> r.err,
     token |-> IF LastOption(opts, "WithAuthToken") = 0 THEN << >>
               ELSE opts[LastOption(opts, "WithAuthToken")].token,
     noCache |-> IF LastOption(opts, "WithNoCache") = 0 THEN FALSE
                 ELSE opts[LastOption(opts, "WithNoCache")].noCache,
     events |-> FALSE, logger |-> "none"]

CallNewClient(baseURL) ==
    /\ setup.by = "none"
    /\ client' = NewClient(baseURL).client
    /\ setup' = SetupOf("NewClient", baseURL, << >>, NewClient(baseURL))
    /\ UNCHANGED <<doc, san, srv, other, callVars, ctx, cli>>

CallNewDefaultClient ==
    /\ setup.by = "none"
    /\ client' = NewDefaultClient.client
    /\ setup' = SetupOf("NewDefaultClient", DefaultBackend, << >>, NewDefaultClient)
    /\ UNCHANGED <<doc, san, srv, other, callVars, ctx, cli>>

CallNew(opts) ==
    /\ setup.by = "none"
    /\ client' = New(opts).client
    /\ setup' = SetupOf("New", << >>, opts, New(opts))
    /\ UNCHANGED <<doc, san, srv, other, callVars, ctx, cli>>

\* The program lets go of the client (or of the error).
Drop ==
    /\ setup.by # "none"
    /\ pc = "idle"
    /\ client' = NilClient
    /\ setup' = NoSetup
    /\ UNCHANGED <<doc, san, srv, other, callVars, ctx, cli>>

InitNew ==
    /\ client = NilClient
    /\ setup = NoSetup
    /\ ctx = "live"
    /\ cli = CliOff
    /\ doc = NoDoc
    /\ san = NoText
    /\ srv = NoServer
    /\ other = NoCall
    /\ Idle

\* The server answers 200 with a document.
ReceiveOK ==
    /\ pc = "inflight"
    /\ ~CtxDone
    /\ \E c \in Contents : resp' = Kept(StatusOK, SmallBody, c)
    /\ pc' = "respond"
    /\ UNCHANGED <<doc, san, srv, other, delays, client, op, args, ctx, reqBuf, attempts, sent, errorLog, logs,
                   result, err, cli, setup>>

NextNew ==
    \/ \E baseURL \in Backends : CallNewClient(baseURL)
    \/ CallNewDefaultClient
    \/ \E opts \in OptionLists : CallNew(opts)
    \/ Drop
    \/ Check(<<"a">>, CliUser, Now)
    \/ Dispatch
    \/ ReceiveOK
    \/ RespondCheck
    \/ Return

SpecNew == InitNew /\ [][NextNew]_vars

\* Setting up: options and setters for the token and the cache flag, then
\* Check against a server that answers 200 or 500, or not at all.
SetupOptions ==
    {WithAuthToken(t) : t \in Tokens} \cup {WithNoCache(b) : b \in BOOLEAN}

SetupLists == UNION {[1..n -> SetupOptions] : n \in 0..MaxOptions}

ReceivePlain ==
    /\ pc = "inflight"
    /\ ReceiveOf({StatusOK, 500}, {SmallBody})

NextSetup ==
    \/ \E opts \in SetupLists : CallNew(opts)
    \/ Drop
    \/ \E token \in Tokens : SetAuthToken(token)
    \/ \E b \in BOOLEAN : SetNoCache(b)
    \/ Check(<<"a">>, CliUser, Now)
    \/ Dispatch
    \/ ReceivePlain
    \/ TimerFires
    \/ RespondCheck
    \/ Return

SpecSetup == InitNew /\ [][NextSetup]_vars

----------------------------------------------------------------------------
\* Retrying: calls of Check and CurrentUser against a server that answers
\* 200, 404, 429 or 500, with short and with long bodies, over connections
\* of every kind.

ReceiveRetry ==
    /\ pc = "inflight"
    /\ ReceiveOf(Statuses, {SmallBody, maxResponseSize + MaxExtra})

NextRetry ==
    \/ SetAuthToken(<<"t">>)
    \/ IncludeEvents
    \/ Check(<<"a">>, CliUser, Now)
    \/ CurrentUser
    \/ Dispatch
    \/ DispatchRewound
    \/ ReceiveRetry
    \/ TimerFires
    \/ CtxObserved
    \/ RespondCheck
    \/ RespondCurrentUser
    \/ Return
    \/ CancelCtx

SpecRetry == Init /\ [][NextRetry]_vars

----------------------------------------------------------------------------
\* Waiting: calls of Check whose attempts fail, the waits of retry.Do taking
\* their random part.

ReceiveFailing ==
    /\ pc = "inflight"
    /\ ReceiveOf({StatusTooManyRequests, 500}, {SmallBody})

TimerWaits ==
    /\ pc = "backoff"
    /\ TimerFiresOf(Jitters)

NextDelay ==
    \/ Check(<<"a">>, CliUser, Now)
    \/ Dispatch
    \/ DispatchRewound
    \/ ReceiveFailing
    \/ TimerWaits
    \/ CtxObserved
    \/ Return
    \/ CancelCtx

SpecDelay == Init /\ [][NextDelay]_vars

----------------------------------------------------------------------------
\* Two goroutines call Check and CurrentUser on one Client, no setter
\* running.  One goroutine runs at a time; `other` holds the call of the one
\* that is suspended, and the scheduler may switch between any two steps.

\* The Client the two goroutines share.
PairClient == [BaseClient EXCEPT !.authToken = <<"t">>]

InitPair ==
    /\ client = PairClient
    /\ setup = [BaseSetup EXCEPT !.token = <<"t">>]
    /\ ctx = "live"
    /\ cli = CliOff
    /\ doc = NoDoc
    /\ san = NoText
    /\ srv = NoServer
    /\ other = NoCall
    /\ Idle

\* The call of the running goroutine.
Running ==
    [op |-> op, args |-> args, pc |-> pc, reqBuf |-> reqBuf, attempts |-> attempts,
     sent |-> sent, resp |-> resp, errorLog |-> errorLog, logs |-> logs,
     result |-> result, err |-> err, delays |-> delays]

\* The scheduler suspends the running goroutine and resumes the other.
Switch ==
    /\ other # Running
    /\ other' = Running
    /\ op' = other.op
    /\ args' = other.args
    /\ pc' = other.pc
    /\ reqBuf' = other.reqBuf
    /\ attempts' = other.attempts
    /\ sent' = other.sent
    /\ resp' = other.resp
    /\ errorLog' = other.errorLog
    /\ logs' = other.logs
    /\ result' = other.result
    /\ err' = other.err
    /\ delays' = other.delays
    /\ UNCHANGED <<client, ctx, cli, setup, doc, san, srv>>

ReceivePair ==
    /\ pc = "inflight"
    /\ ReceiveOf({StatusOK, 500}, {SmallBody})

NextPair ==
    \/ Check(<<"a">>, CliUser, Now)
    \/ CurrentUser
    \/ Dispatch
    \/ ReceivePair
    \/ TimerFires
    \/ RespondCheck
    \/ RespondCurrentUser
    \/ Switch

SpecPair == InitPair /\ [][NextPair]_vars

----------------------------------------------------------------------------
\* A CheckResponse through encoding/json, as TestCheckResponseJSON takes it:
\* json.Marshal, then json.Unmarshal.  Of the response the action mapping
\* (map[string]Action) is followed.

\* The user keys of a mapping, in the byte order json.Marshal sorts them in.
SortedKeys == << <<"u">>, <<RuneError>>, <<BadByte>> >>

ActionKinds == {<<"REVIEW">>, <<BadByte>>}

Reasons == {<<"a", "<">>, <<"a", BadByte>>}

\* Action: since, kind, reason, critical.
Actions == [since : {Now}, kind : ActionKinds, reason : Reasons, critical : BOOLEAN]

KeySets == SUBSET {SortedKeys[i] : i \in 1..Len(SortedKeys)}

ActionMaps == UNION {[K -> Actions] : K \in KeySets}

\* An Action as a JSON object that leaves out the reason.
jsonEncodeAction_NoReason(a) ==
    [since |-> jsonEncodeTime(a.since), kind |-> jsonEncodeString(a.kind),
     reason |-> << >>, critical |-> a.critical]

\* An Action as a JSON object: "since", "kind", "reason", "critical".
jsonEncodeAction(a) ==
    [since |-> jsonEncodeTime(a.since), kind |-> jsonEncodeString(a.kind),
     reason |-> jsonEncodeString(a.reason), critical |-> a.critical]

jsonDecodeAction(j) ==
    [since |-> [inst |-> jsonTimeInstant(j.since), off |-> j.since.off],
     kind |-> jsonDecodeString(j.kind), reason |-> jsonDecodeString(j.reason),
     critical |-> j.critical]

\* A map[string]Action as a JSON object: one member per key, the keys sorted
\* and then written as JSON strings.
jsonEncodeActions(m) ==
    LET keys == SelectSeq(SortedKeys, LAMBDA k : k \in DOMAIN m)
    IN  [i \in 1..Len(keys) |->
            [key |-> jsonEncodeString(keys[i]), value |-> jsonEncodeAction(m[keys[i]])]]

\* The map json.Unmarshal builds from a JSON object: of the members with
\* one key the last is kept.
jsonDecodeActions(j) ==
    LET keyOf(i) == jsonDecodeString(j[i].key)
        last(k) == CHOOSE i \in 1..Len(j) :
                      /\ keyOf(i) = k
                      /\ \A n \in 1..Len(j) : keyOf(n) = k => n <= i
    IN  [k \in {keyOf(i) : i \in 1..Len(j)} |-> jsonDecodeAction(j[last(k)].value)]

\* A CheckResponse with action mapping m is at hand.
MakeResponse(m) ==
    /\ doc.pc = "none"
    /\ doc' = [doc EXCEPT !.pc = "made", !.value = m]
    /\ UNCHANGED <<client, callVars, ctx, cli, setup, san, srv, other>>

\* json.Marshal(resp).
MarshalResponse ==
    /\ doc.pc = "made"
    /\ doc' = [doc EXCEPT !.pc = "json", !.json = jsonEncodeActions(doc.value)]
    /\ UNCHANGED <<client, callVars, ctx, cli, setup, san, srv, other>>

\* json.Unmarshal(data, &decoded).
UnmarshalResponse ==
    /\ doc.pc = "json"
    /\ doc' = [doc EXCEPT !.pc = "decoded", !.decoded = jsonDecodeActions(doc.json)]
    /\ UNCHANGED <<client, callVars, ctx, cli, setup, san, srv, other>>

NextJSON ==
    \/ \E m \in ActionMaps : MakeResponse(m)
    \/ MarshalResponse
    \/ UnmarshalResponse

SpecJSON == Init /\ [][NextJSON]_vars

----------------------------------------------------------------------------
\* Properties.

InCheck == op = "Check"

\* The arguments of the call in progress pass Check's argument checks.
ArgsGiven ==
    /\ args.prURL # << >>
    /\ args.user # << >>
    /\ ~IsZero(args.updatedAt)

\* The body of request r, as a JSON decoder on the server reads it.
DecodedURL(r) == jsonDecodeString(r.body.url)

DecodedUser(r) == jsonDecodeString(r.body.user)

\* C1: a Check call whose PR URL is empty, whose user is empty or whose
\* timestamp is the zero time returns a non-nil error and a nil result, and
\* no request is dispatched during it: no attempt, no retry.
C1_BadArgsRejected ==
    (InCheck /\ ~ArgsGiven) =>
        /\ pc = "done"
        /\ err # NoErr
        /\ result = NilResult
        /\ attempts = 0
        /\ sent = << >>
        /\ RetryLines(logs) = << >>

C1_Witness ==
    /\ InCheck
    /\ pc = "done"
    /\ args.prURL # << >>
    /\ args.user = << >>
    /\ ~IsZero(args.updatedAt)
    /\ err = Error("user cannot be empty")

\* The first attempt of the Check call in progress was answered with
\* status 200.
FirstAnswered200 ==
    /\ InCheck
    /\ attempts = 1
    /\ pc \in {"respond", "done"}
    /\ resp.status = StatusOK

\* Exactly one request was dispatched, a POST to baseURL + "/v1/validate"
\* whose JSON body carries the three arguments.
OneFaithfulPost ==
    /\ Len(sent) = 1
    /\ sent[1].method = "POST"
    /\ sent[1].url = client.baseURL \o <<"/v1/validate">>
    /\ sent[1].body.present
    /\ DecodedURL(sent[1]) = args.prURL
    /\ DecodedUser(sent[1]) = args.user
    /\ jsonTimeInstant(sent[1].body.updated_at) = args.updatedAt.inst

\* C2 as stated: for every non-empty PR URL, non-empty user and non-zero
\* timestamp, when the first attempt is answered with status 200, Check has
\* dispatched exactly one request, a POST to baseURL + "/v1/validate" whose
\* JSON body carries url, user and updated_at equal to the arguments.
C2_Original == (FirstAnswered200 /\ ArgsGiven) => OneFaithfulPost

\* C2, amended: the same for every PR URL and user that are valid UTF-8.
\* (encoding/json replaces each invalid byte by U+FFFD, so other strings do
\* not arrive unchanged.)
C2_OnePostRoundTrip ==
    (FirstAnswered200 /\ ArgsGiven /\ ValidUTF8(args.prURL) /\ ValidUTF8(args.user))
        => OneFaithfulPost

C2_Witness ==
    /\ FirstAnswered200
    /\ pc = "done"
    /\ args.prURL = <<"a">>
    /\ args.user = <<"\n">>
    /\ args.updatedAt.off # 0
    /\ err = NoErr

\* The response in resp was delivered whole and is a document that fits the
\* read limit.
GoodBody == resp.content.json /\ resp.len <= maxResponseSize /\ ~resp.broken

\* C3: when the first attempt of a Check call receives status 500 and the
\* second receives status 200 (with a well-formed body, delivered whole),
\* Check returns success with the result decoded from the body of the 200
\* response, and exactly one retry diagnostic was emitted during the call.
C3_RetryThenSuccess ==
    (InCheck /\ pc = "done" /\ attempts = 2 /\ errorLog = <<ServerError(500)>>
        /\ resp.status = StatusOK) =>
        /\ Len(RetryLines(logs)) = 1
        /\ GoodBody =>
             /\ err = NoErr
             /\ result = [nil |-> FALSE, actions |-> resp.content.actions,
                          login |-> << >>]

C3_Witness ==
    /\ InCheck /\ pc = "done" /\ attempts = 2
    /\ errorLog = <<ServerError(500)>>
    /\ resp.status = StatusOK
    /\ GoodBody
    /\ result.actions = 1
    /\ err = NoErr

\* Every attempt of the call so far received status 500.
All500 ==
    /\ Len(errorLog) = attempts
    /\ \A i \in 1..Len(errorLog) : errorLog[i] = ServerError(500)

\* C4: when every attempt receives status 500 and the context is never
\* cancelled, a Check call, and likewise a CurrentUser call, makes exactly
\* retryAttempts = 4 attempts, never a fifth, and then returns an error that
\* wraps the retry failure ("send request:") and refers to status 500.
C4_FourAttempts ==
    /\ attempts <= retryAttempts
    /\ Len(sent) <= retryAttempts
    /\ (pc = "done" /\ attempts > 0 /\ All500 /\ ctx = "live") =>
          /\ attempts = retryAttempts
          /\ Len(sent) = retryAttempts
          /\ err.kind = "send request"
          /\ \E i \in 1..Len(err.log) : err.log[i].status = 500
          /\ result = NilResult

C4_Witness ==
    /\ op = "CurrentUser" /\ pc = "done" /\ All500 /\ ctx = "live"
    /\ attempts = retryAttempts
    /\ Len(sent) = retryAttempts

\* A status that is not 200, not 429 and below 500.
Rejecting(status) ==
    /\ status # 0
    /\ status # StatusOK
    /\ status # StatusTooManyRequests
    /\ status < 500

StatusErrors ==
    {"api request failed with status", "github API request failed with status"}

\* C5: a response whose status is not 200, not 429 and below 500 ends the
\* call at once, in Check and in CurrentUser: the attempt that received it
\* is the last one (the only one, when it was the first), no retry and no
\* retry diagnostic follows, and the call returns an error that names the
\* status (the body having been delivered).
C5_RejectedAtOnce ==
    Rejecting(resp.status) =>
        /\ pc \in {"respond", "done"}
        /\ attempts = Len(errorLog) + 1
        /\ Len(RetryLines(logs)) = Len(errorLog)
        /\ errorLog = << >> => (attempts = 1 /\ Len(sent) = 1 /\ RetryLines(logs) = << >>)
        /\ pc = "done" =>
             /\ result = NilResult
             /\ err # NoErr
             /\ ~resp.broken => (err.kind \in StatusErrors /\ err.status = resp.status)

C5_Witness ==
    /\ InCheck /\ pc = "done"
    /\ resp.status = 404
    /\ attempts = 1
    /\ err = StatusError("api request failed with status", 404, ErrorExcerpt(resp))

RetryableOutcome(r) ==
    r.status = 0 \/ r.status >= 500 \/ r.status = StatusTooManyRequests

\* C6: a further attempt is started only after an attempt that ended in a
\* transport error (resp is nil) or in a response with status >= 500 or 429;
\* and such an outcome is followed by another attempt as long as fewer than
\* retryAttempts attempts were made and the context is not done: the wait
\* between attempts is left without a new attempt only when the context is
\* done, the loop gives up under a live context only after retryAttempts
\* attempts, and no response with such a status is handed on as the final one.
C6_RetryPolicy ==
    /\ [][(attempts' > attempts /\ attempts >= 1) => RetryableOutcome(resp)]_vars
    /\ [][(pc = "backoff" /\ pc' = "done") => CtxDone]_vars
    /\ []((pc = "done" /\ err.kind = "send request" /\ ctx = "live")
             => attempts = retryAttempts)
    /\ []((pc = "respond" \/ (pc = "done" /\ err.kind # "send request"))
             => (resp.status = 0 \/ ~RetryableOutcome(resp)))

C6_Witness ==
    /\ pc = "inflight"
    /\ attempts = retryAttempts
    /\ errorLog = <<NetError, ServerError(429), ServerError(500)>>
    /\ ctx = "live"

InLoop(p) == p \in {"attempt", "inflight", "backoff"}

\* C7: once the context is cancelled or past its deadline no further request
\* is dispatched, whether the loop is between attempts, in the delay or at
\* the next dispatch, and the retry loop then ends only in the call
\* returning an error.
C7_NoAttemptAfterCancel ==
    /\ [][CtxDone => Len(sent') <= Len(sent)]_vars
    /\ [][(CtxDone /\ InLoop(pc) /\ ~InLoop(pc'))
            => (pc' = "done" /\ err' # NoErr /\ result' = NilResult)]_vars

C7_Witness ==
    /\ pc = "done"
    /\ ctx = "deadline"
    /\ attempts = 1
    /\ Len(sent) = 1
    /\ err = SendError(<<ServerError(500), CtxError("deadline")>>)

\* The error Check returned came from the context.
CausedByCtx(e) ==
    \/ /\ e.kind = "send request"
       /\ \E i \in 1..Len(e.log) : e.log[i].kind \in {"context canceled", "context deadline"}
    \/ e.kind = "read response"

\* C8: when Check fails, the command reports "interrupted" if the request
\* context was cancelled by a signal, "request timed out" if its deadline
\* expired, and the Check error otherwise; and a Check failure that the
\* context did not cause (a 404, say) is never reported as a timeout or an
\* interruption.
C8_ReportMatchesCause ==
    (cli.pc = "reported" /\ err # NoErr) =>
        /\ ctx = "canceled" => cli.report = "interrupted"
        /\ ctx = "deadline" => cli.report = "request timed out"
        /\ ctx = "live" => cli.report = "checking PR"
        /\ cli.report \in {"interrupted", "request timed out"} => CausedByCtx(err)

\* C9: Check never reads more than maxResponseSize bytes of a response body,
\* whatever its length; a longer body, delivered by the connection, is cut at
\* the limit and the read does not fail.
C9_ReadCapped ==
    InCheck =>
        /\ resp.read <= maxResponseSize
        /\ (resp.status # 0 /\ ~resp.open /\ ~resp.broken /\ resp.len > maxResponseSize)
             => (resp.read = maxResponseSize /\ err.kind # "read response")

C9_Witness ==
    /\ InCheck /\ pc = "done"
    /\ resp.status = StatusOK
    /\ resp.len = maxResponseSize + 1
    /\ resp.read = maxResponseSize
    /\ err = Error("unmarshal response")

\* C10: CurrentUser reads at most maxResponseSize bytes of the response body
\* on every path, the 200 path included.
C10_UserReadCapped == op = "CurrentUser" => resp.read <= maxResponseSize

\* The body of r is not the JSON of a CheckResponse: it is no JSON, or a
\* document longer than the read limit.
Undecodable(r) == ~r.content.json \/ r.len > maxResponseSize

\* C11: when the final response of a Check call has status 200 and its body
\* does not decode, Check returns the "unmarshal response" error around the
\* decode error and a nil result; that attempt is the last one (it is not
\* counted as failed and nothing is sent after it), and the error carries
\* no part of the body.
C11_MalformedSuccess ==
    (InCheck /\ pc = "done" /\ resp.status = StatusOK /\ ~resp.broken
        /\ Undecodable(resp)) =>
        /\ err.kind = "unmarshal response"
        /\ err.body = NoExcerpt
        /\ result = NilResult
        /\ attempts = Len(errorLog) + 1
        /\ Len(sent) <= attempts
        /\ Len(RetryLines(logs)) = Len(errorLog)

C11_Witness ==
    /\ InCheck /\ pc = "done"
    /\ resp.status = StatusOK
    /\ ~resp.content.json
    /\ resp.read = SmallBody
    /\ attempts = 1
    /\ err = Error("unmarshal response")

\* C12: for every response with a status other than 200 that is not retried
\* (201, 302, 404), body delivered, Check fails with an error that carries
\* the status and an excerpt of the body of at most errorMaxLength = 500
\* characters; the excerpt ends on a character boundary, and "(truncated)"
\* follows it exactly when the body has more than 500 characters (otherwise
\* the excerpt is the whole body).
C12_StatusExcerpt ==
    (InCheck /\ pc = "done" /\ Rejecting(resp.status) /\ ~resp.broken) =>
        /\ err.kind = "api request failed with status"
        /\ err.status = resp.status
        /\ result = NilResult
        /\ err.body.runes <= errorMaxLength
        /\ ~err.body.split
        /\ err.body.marker <=> (RuneCount(resp) > errorMaxLength)
        /\ err.body.marker => err.body.runes = errorMaxLength
        /\ ~err.body.marker =>
              (err.body.runes = RuneCount(resp) /\ err.body.bytes = resp.read)

C12_Witness ==
    /\ InCheck /\ pc = "done"
    /\ resp.status = 302
    /\ resp.read = errorMaxLength + 1
    /\ resp.text = [bad |-> 0, lead |-> 1, wide |-> 1]
    /\ err.body = [runes |-> errorMaxLength, bytes |-> errorMaxLength + 1,
                   marker |-> FALSE, split |-> FALSE]

\* Backends NewClient has to refuse: the empty one, "ftp://h", "h h" (no
\* URL at all), "://h", and two that do not parse.
RefusedURLs ==
    { << >>,
      <<"ftp", ":", "/", "/", "h">>,
      <<"h", " ", "h">>,
      <<":", "/", "/", "h">>,
      <<"http", ":", "/", "/", "h", " ", "h">>,
      <<"http", ":", "/", "/", "h", "/", "%">> }

\* Well-formed backends, without and with trailing slashes, and what is left
\* of each without them.
WellFormedURLs ==
    { BaseURL,
      <<"https", ":", "/", "/", "h", "/">>,
      <<"http", ":", "/", "/", "h", "/", "/">> }

Slashless(u) == SelectSeq(u, LAMBDA t : t # "/")

\* C13: NewClient(baseURL) returns an error and no client when baseURL is
\* empty, does not parse, or has a scheme other than http or https (such as
\* "ftp://h" or "h h"); for a well-formed http or https URL, with or without
\* trailing slashes, it returns a client and no error.
C13_NewClientValidates ==
    setup.by = "NewClient" =>
        /\ client.nil <=> (setup.err # "")
        /\ setup.baseURL \in RefusedURLs => client.nil
        /\ (setup.baseURL = << >> \/ ~URLParse(setup.baseURL).ok
              \/ URLParse(setup.baseURL).scheme \notin HTTPSchemes) => client.nil
        /\ setup.baseURL \in WellFormedURLs =>
              /\ ~client.nil
              /\ Len(client.baseURL) = 5
              /\ Slashless(client.baseURL) = Slashless(setup.baseURL)

C13_Witness ==
    /\ setup.by = "NewClient"
    /\ setup.baseURL = <<"ftp", ":", "/", "/", "h">>
    /\ client.nil
    /\ setup.err = "base URL must use http or https"

\* URLs with an http or https scheme and no host: "http://", "https:///h".
HostlessURLs ==
    { <<"http", ":", "/", "/">>, <<"https", ":", "/", "/", "/", "h">> }

\* The backend New ends up with: the URL of the last WithBackend option, or
\* DefaultBackend.
FinalBackend(opts) ==
    IF LastOption(opts, "WithBackend") = 0 THEN DefaultBackend
    ELSE opts[LastOption(opts, "WithBackend")].url

\* C14: NewClient, and New with a WithBackend option, return an error and no
\* client when the URL has an http or https scheme and no host.
C14_HostRequired ==
    /\ (setup.by = "NewClient" /\ setup.baseURL \in HostlessURLs)
          => (client.nil /\ setup.err # "")
    /\ (setup.by = "New" /\ FinalBackend(setup.opts) \in HostlessURLs)
          => (client.nil /\ setup.err # "")

\* The scheme a URL is written with: the letters before its first ":".
SchemeText(u) ==
    LET k == Find(u, 1, Marks)
    IN  IF k > 1 /\ k <= Len(u) /\ u[k] = ":"
        THEN [i \in 1..(k - 1) |-> ToLower(u[i])]
        ELSE << >>

\* The logger New ends up with.
FinalLogger(opts) ==
    LET I == {i \in 1..Len(opts) : opts[i].kind = "WithLogger" /\ opts[i].logger # "nil"}
    IN  IF I = {} THEN "discard"
        ELSE opts[CHOOSE i \in I : \A j \in I : j <= i].logger

\* New returned a client whose fields are what the last option of each kind
\* set.
NewSucceeded ==
    /\ ~client.nil
    /\ setup.err = ""
    /\ Slashless(client.baseURL) = Slashless(FinalBackend(setup.opts))
    /\ client.baseURL = << >> \/ client.baseURL[Len(client.baseURL)] # "/"
    /\ client.authToken = setup.token
    /\ client.noCache = setup.noCache
    /\ client.logger = FinalLogger(setup.opts)

NewFailed == client.nil /\ setup.err # ""

UsesDefault == LastOption(setup.opts, "WithBackend") = 0 => client.baseURL = DefaultBackend

\* C15 as stated: New uses DefaultBackend when no WithBackend option is
\* given; it returns an error and no client whenever the backend finally
\* selected is empty or is not written with scheme http or https, and
\* otherwise a client whose baseURL, authToken, logger and noCache are the
\* values set by the last option of each kind.
C15_Original ==
    setup.by = "New" =>
        LET b == FinalBackend(setup.opts)
        IN  /\ UsesDefault
            /\ IF b = << >> \/ SchemeText(b) \notin HTTPSchemes
               THEN NewFailed
               ELSE NewSucceeded

\* C15, amended: the same, New failing also when the backend finally
\* selected does not parse.
C15_NewRevalidates ==
    setup.by = "New" =>
        LET b == FinalBackend(setup.opts)
        IN  /\ UsesDefault
            /\ IF b = << >> \/ ~URLParse(b).ok \/ SchemeText(b) \notin HTTPSchemes
               THEN NewFailed
               ELSE NewSucceeded

C15_Witness ==
    /\ setup.by = "New"
    /\ setup.opts = << WithAuthToken(<<"t">>),
                       WithBackend(<<"https", ":", "/", "/", "h", "/">>) >>
    /\ client.baseURL = <<"https", ":", "/", "/", "h">>
    /\ client.authToken = <<"t">>

\* C16: every client NewClient, NewDefaultClient or New returns has a baseURL
\* that does not end in "/" and is written with scheme http or https, and
\* every request of Check goes to baseURL followed by "/v1/validate", with
\* one slash where the two meet.
C16_NoTrailingSlash ==
    ~client.nil =>
        /\ client.baseURL # << >>
        /\ client.baseURL[Len(client.baseURL)] # "/"
        /\ SchemeText(client.baseURL) \in HTTPSchemes
        /\ \A i \in 1..Len(sent) :
              /\ SubSeq(sent[i].url, 1, Len(client.baseURL)) = client.baseURL
              /\ SubSeq(sent[i].url, Len(client.baseURL) + 1, Len(sent[i].url))
                    = <<"/v1/validate">>

C16_Witness ==
    /\ setup.by = "NewClient"
    /\ setup.baseURL = <<"http", ":", "/", "/", "h", "/", "/">>
    /\ Len(sent) = 1
    /\ sent[1].url = <<"http", ":", "/", "/", "h", "/v1/validate">>

\* C17: after any sequence of WithAuthToken options and SetAuthToken calls,
\* every request of a Check call, retries included, carries the header
\* "Authorization: Bearer <token>" with the token given last when that token
\* is not empty, and no Authorization header when it is empty or none was
\* given.
C17_AuthHeader ==
    InCheck =>
        \A i \in 1..Len(sent) :
            IF setup.token # << >>
            THEN /\ "Authorization" \in DOMAIN sent[i].header
                 /\ sent[i].header.Authorization = <<"Bearer ">> \o setup.token
            ELSE "Authorization" \notin DOMAIN sent[i].header

C17_Witness ==
    /\ InCheck
    /\ setup.opts = <<WithAuthToken(<< >>)>>
    /\ setup.token = <<"t">>
    /\ Len(sent) = 2
    /\ sent[2].header.Authorization = <<"Bearer ", "t">>

\* C18: after any sequence of WithNoCache options and SetNoCache calls, a
\* request of Check carries the header "Cache-Control: no-cache" if and only
\* if the value given last is true.
C18_NoCacheHeader ==
    InCheck =>
        \A i \in 1..Len(sent) :
            IF setup.noCache
            THEN /\ "CacheControl" \in DOMAIN sent[i].header
                 /\ sent[i].header.CacheControl = <<"no-cache">>
            ELSE "CacheControl" \notin DOMAIN sent[i].header

C18_Witness ==
    /\ InCheck
    /\ setup.opts = <<WithNoCache(TRUE)>>
    /\ ~setup.noCache
    /\ Len(sent) = 1
    /\ "CacheControl" \notin DOMAIN sent[1].header

\* C19: CurrentUser on a client without a token (none set, or the empty
\* string set) returns an error and no identity, and no request is
\* dispatched.
C19_TokenRequired ==
    (op = "CurrentUser" /\ setup.token = << >>) =>
        /\ pc = "done"
        /\ err # NoErr
        /\ result = NilResult
        /\ attempts = 0
        /\ sent = << >>

C19_Witness ==
    /\ op = "CurrentUser"
    /\ pc = "done"
    /\ client.authToken = << >>
    /\ err = Error("no auth token set")
    /\ sent = << >>

\* C20: CurrentUser never succeeds with an empty identity: when it returns a
\* nil error the login it returns is the non-empty login field of a 200
\* response, and a 200 response (a JSON document, delivered) whose login is
\* empty or missing makes it fail with the "empty username" error.
C20_IdentityNotEmpty ==
    (op = "CurrentUser" /\ pc = "done") =>
        /\ err = NoErr =>
              /\ ~result.nil
              /\ result.login # << >>
              /\ resp.status = StatusOK
              /\ result.login = resp.content.login
        /\ (resp.status = StatusOK /\ ~resp.broken /\ resp.content.json
               /\ resp.content.login = << >>) =>
              /\ err = Error("empty username in GitHub response")
              /\ result = NilResult

C20_Witness ==
    /\ op = "CurrentUser" /\ pc = "done"
    /\ resp.status = StatusOK
    /\ resp.content.json
    /\ resp.content.login = << >>
    /\ err = Error("empty username in GitHub response")

\* The command has exited after a Check that returned a result.
CheckSucceeded == cli.stage = "check" /\ err = NoErr /\ ~result.nil

PullPath(p, breaks) ==
    \E i, j \in {n \in 1..Len(p) : p[n] = "/"},
       k \in {n \in 1..Len(p) : p[n] = "/"} \cup {Len(p) + 1} :
        /\ 2 < i /\ i + 1 < j /\ j + 3 < k
        /\ p[1] = "/"
        /\ \A n \in (2..(i - 1)) \cup ((i + 1)..(j - 1)) : p[n] # "/"
        /\ p[j + 1] = "pull" /\ p[j + 2] = "/"
        /\ \A n \in (j + 3)..(k - 1) : p[n] \in Digits
        /\ \/ k = Len(p) + 1
           \/ /\ p[k] = "/"
              /\ breaks \/ \A n \in k..Len(p) : p[n] # "\n"

\* A PR URL as the claim describes it.
PullRequestURL(u, breaks) ==
    /\ u # << >>
    /\ URLParse(u).ok
    /\ SchemeText(u) \in HTTPSchemes
    /\ URLParse(u).host \in GitHubHosts
    /\ PullPath(URLPath(u), breaks)

\* The command got past validatePRURL, or was stopped by it.
Validated(breaks) ==
    cli.stage \in {"url", "setup", "check"} =>
        /\ (cli.stage # "url") <=> PullRequestURL(cli.prURL, breaks)
        /\ cli.stage = "url" =>
              /\ cli.pc = "reported"
              /\ cli.code = 1
              /\ ~cli.made
              /\ op = "none" /\ attempts = 0 /\ sent = << >>

\* C23 as stated: validatePRURL accepts a URL exactly when it is non-empty,
\* parses, has scheme http or https, has host github.com or www.github.com
\* and has a path of the form /<owner>/<repo>/pull/<digits> optionally
\* followed by "/" and anything; for every other input the command exits
\* with code 1 before it creates a client or sends a request.
C23_Original == Validated(TRUE)

\* C23, amended: the same, the text after /<owner>/<repo>/pull/<digits>/
\* being anything that holds no line break.
C23_ValidatePRURL == Validated(FALSE)

C23_Witness ==
    /\ cli.pc = "reported"
    /\ cli.stage = "url"
    /\ cli.prURL = <<"https", ":", "/", "/", "h">> \o PullOne
    /\ cli.error = "url must be a GitHub URL"
    /\ cli.code = 1
    /\ ~cli.made
    /\ sent = << >>

\* The user keys, kinds and reasons of mapping m are valid UTF-8.
ValidMapping(m) ==
    \A k \in DOMAIN m : ValidUTF8(k) /\ ValidUTF8(m[k].kind) /\ ValidUTF8(m[k].reason)

\* Mapping d has the user keys of m and, for each, its kind, critical flag
\* and reason.
SameActions(m, d) ==
    /\ DOMAIN d = DOMAIN m
    /\ \A k \in DOMAIN m :
          /\ d[k].kind = m[k].kind
          /\ d[k].critical = m[k].critical
          /\ d[k].reason = m[k].reason

\* C22 as stated: encoding a CheckResponse whose action mapping is not empty
\* to JSON and decoding it again yields a mapping with the same user keys
\* and, for every key, the same kind, critical flag and reason.
C22_Original ==
    (doc.pc = "decoded" /\ DOMAIN doc.value # {}) => SameActions(doc.value, doc.decoded)

\* C22, amended: the same for a mapping whose user keys, kinds and reasons
\* are valid UTF-8.
C22_RoundTrip ==
    (doc.pc = "decoded" /\ DOMAIN doc.value # {} /\ ValidMapping(doc.value))
        => SameActions(doc.value, doc.decoded)

C22_Witness ==
    /\ doc.pc = "decoded"
    /\ DOMAIN doc.value = {<<"u">>, <<RuneError>>}
    /\ doc.value[<<"u">>].reason = <<"a", "<">>
    /\ doc.value[<<"u">>].critical
    /\ doc.json[1].value.reason[2].esc
    /\ SameActions(doc.value, doc.decoded)

\* C24: once IncludeEvents has been called on a Client, every later request
\* of Check has a body that carries include_events = true, and the flag is
\* never turned off again; on a Client where it was never called no request
\* of Check asks for events.
C24_EventsSticky ==
    /\ client.includeEvents = setup.events
    /\ InCheck =>
          \A i \in 1..Len(sent) :
              IF setup.events
              THEN sent[i].body.present /\ sent[i].body.include_events
              ELSE ~sent[i].body.include_events

\* C26: every attempt of one Check call sends the same request, with the
\* complete JSON body and the same headers: a retry never goes out with an
\* empty or partly read body.
C26_SameBodyEveryAttempt ==
    InCheck =>
        \A i \in 1..Len(sent) :
            /\ sent[i].body = CheckRequestJSON(client, args)
            /\ sent[i] = sent[1]

\* C27: a response with status 500 or above, or 429, has been drained, at
\* most maxResponseSize bytes of it being read, and closed by the time the
\* retry loop waits for the next attempt; no attempt is dispatched while the
\* body of the response before it is open.
C27_DrainedBeforeRetry ==
    /\ (resp.status >= 500 \/ resp.status = 429) =>
          /\ ~resp.open
          /\ resp.read <= maxResponseSize
          /\ resp.read = resp.len \/ resp.read = maxResponseSize
    /\ pc \in {"backoff", "attempt"} => ~resp.open

C27_Witness ==
    /\ pc = "attempt"
    /\ attempts = 1
    /\ resp.status = 500
    /\ resp.len > maxResponseSize
    /\ resp.read = maxResponseSize
    /\ ~resp.open

\* C28: when Check or CurrentUser has returned, on whatever path, no response
\* body is open: the body of the last response is closed, and every response
\* before it was closed when the next request left.
C28_AllBodiesClosed ==
    /\ pc \in {"done", "idle"} => ~resp.open
    /\ pc = "inflight" => ~resp.open

C28_Witness ==
    /\ op = "CurrentUser"
    /\ pc = "done"
    /\ attempts = 2
    /\ resp.status = StatusOK
    /\ err = Error("decode response")
    /\ ~resp.open

SameAnswers ==
    /\ op = other.op
    /\ args = other.args
    /\ errorLog = other.errorLog
    /\ resp.status = other.resp.status
    /\ resp.len = other.resp.len
    /\ resp.content = other.resp.content
    /\ resp.broken = other.resp.broken

----------------------------------------------------------------------------
\* Returning: calls of Check and CurrentUser whose every step that is under
\* way completes.  c.httpClient.Do returns, the body that is read ends, and
\* the select of retry.Do takes a branch that is ready: ctx.Done() once the
\* context is done, the timer while the context is live.  Nothing is assumed
\* of a timer after the context is done: its delay may be of any length.

ReceiveLive ==
    /\ pc = "inflight"
    /\ ReceiveOf({StatusOK, 404, 500}, {SmallBody})

\* The timer of a wait fires before the context is done.
TimerInTime ==
    /\ ~CtxDone
    /\ TimerFires

NextLive ==
    \/ SetAuthToken(<<"t">>)
    \/ Check(<<"a">>, CliUser, Now)
    \/ CurrentUser
    \/ Dispatch
    \/ DispatchRewound
    \/ ReceiveLive
    \/ TimerFires
    \/ CtxObserved
    \/ RespondCheck
    \/ RespondCurrentUser
    \/ Return
    \/ CancelCtx
    \/ DeadlineExpires

StepsComplete ==
    /\ WF_vars(Dispatch)
    /\ WF_vars(ReceiveLive)
    /\ WF_vars(TimerInTime)
    /\ WF_vars(CtxObserved)
    /\ WF_vars(RespondCheck)
    /\ WF_vars(RespondCurrentUser)

SpecLive == Init /\ [][NextLive]_vars /\ StepsComplete

\* A call of Check or CurrentUser is under way.
Called == pc \in {"attempt", "inflight", "backoff", "respond"}

\* C31: every call of Check and CurrentUser returns, every HTTP attempt
\* returning: the retry loop makes at most retryAttempts attempts, sends
\* nothing once the context is done, and a wait whose timer never fires
\* ends when the context is done.
C31_CallReturns ==
    /\ [](attempts <= retryAttempts)
    /\ [][(CtxDone /\ Called) => Len(sent') <= Len(sent)]_vars
    /\ Called ~> (pc = "done")

\* A call left its wait because the context was cancelled.
C31_Witness ==
    /\ pc = "done"
    /\ ctx = "canceled"
    /\ attempts = 2
    /\ delays = <<Delay>>
    /\ err = SendError(<<ServerError(500), NetError, CtxError("canceled")>>)

\* Text t holds a line feed, a carriage return or a tab as it is.
RawControl(t) == \E i \in 1..Len(t) : t[i] \in ControlChars

\* C32: no diagnostic line of Check holds a raw control character taken from
\* the PR URL or the user of the call.
C32_LogsSanitized ==
    \A i \in 1..Len(logs) :
        logs[i].kind = "checking PR" =>
            /\ ~RawControl(logs[i].a)
            /\ ~RawControl(logs[i].b)

----------------------------------------------------------------------------
\* sanitizeForLog, of the revision of the package that has it: the text is
\* cut to logMaxLength characters, its characters are written out one by
\* one, and "..." follows when the text was cut.

asciiDEL == 127

NUL == "0x00"

DEL == "0x7F"

\* The code point of a character; an invalid byte is read as U+FFFD.
CodePoint(ch) ==
    CASE ch = NUL -> 0
      [] ch = "\t" -> 9
      [] ch = "\n" -> 10
      [] ch = "\r" -> 13
      [] ch = "\\" -> 92
      [] ch = "a" -> 97
      [] ch = "n" -> 110
      [] ch = "r" -> 114
      [] ch = "t" -> 116
      [] ch = "." -> 46
      [] ch = DEL -> asciiDEL
      [] ch = "é" -> 233
      [] ch \in {BadByte, RuneError} -> 65533

\* What the switch of the loop writes to the Builder for character r:
\* result.WriteString("\\n"), result.WriteRune(r) or nothing.
WriteRune_TabDropped(r) ==
    CASE r = "\n" -> <<"\\", "n">>
      [] r = "\r" -> <<"\\", "r">>
      [] OTHER -> IF CodePoint(r) >= 32 /\ CodePoint(r) # asciiDEL THEN <<r>> ELSE << >>

WriteRune(r) ==
    CASE r = "\n" -> <<"\\", "n">>
      [] r = "\r" -> <<"\\", "r">>
      [] r = "\t" -> <<"\\", "t">>
      [] OTHER -> IF CodePoint(r) >= 32 /\ CodePoint(r) # asciiDEL THEN <<r>> ELSE << >>

\* for _, r := range s: the Builder after the first n characters.
RECURSIVE RangeLoop(_, _)
RangeLoop(rs, n) ==
    IF n = 0 THEN << >> ELSE RangeLoop(rs, n - 1) \o WriteRune(rs[n])

sanitizeForLog(s) ==
    LET truncated == ByteLen(s) > logMaxLength /\ Len(Runes(s)) > logMaxLength
        cut == IF truncated THEN SubSeq(Runes(s), 1, logMaxLength) ELSE s
        built == RangeLoop(Runes(cut), Len(cut))
    IN  IF truncated THEN built \o <<".", ".", ".">> ELSE built

\* The texts handed to sanitizeForLog: a run of "a" of a length around
\* logMaxLength, with up to MaxHead characters before it and up to MaxTail
\* after it.
MaxHead == 1

MaxTail == 1

LogChars == {"a", "\\", "\n", "\r", "\t", NUL, DEL, "é", BadByte}

Upto(n) == UNION {[1..k -> LogChars] : k \in 0..n}

PadLens == {0} \cup ((logMaxLength - 3)..(logMaxLength + 1))

Pad(k) == [i \in 1..k |-> "a"]

LogTexts == {h \o Pad(k) \o t : h \in Upto(MaxHead), k \in PadLens, t \in Upto(MaxTail)}

CallSanitizeForLog(s) ==
    /\ pc = "idle" /\ cli.pc = "off"
    /\ san.pc = "none"
    /\ san' = [pc |-> "done", input |-> s, output |-> sanitizeForLog(s)]
    /\ UNCHANGED <<client, callVars, ctx, cli, setup, doc, srv, other>>

\* The text is logged and forgotten.
Logged ==
    /\ san.pc = "done"
    /\ san' = NoText
    /\ UNCHANGED <<client, callVars, ctx, cli, setup, doc, srv, other>>

NextLog ==
    \/ \E s \in LogTexts : CallSanitizeForLog(s)
    \/ Logged

SpecLog == Init /\ [][NextLog]_vars

\* A control character: a code point below 32, or DEL.
IsControl(ch) == CodePoint(ch) < 32 \/ CodePoint(ch) = 127

\* The characters of a text, cut to the first n.
FirstChars(t, n) == IF Len(Runes(t)) > n THEN SubSeq(Runes(t), 1, n) ELSE Runes(t)

\* How one character is to appear in a log line.
Shown(ch) ==
    IF ch = "\n" THEN <<"\\", "n">>
    ELSE IF ch = "\r" THEN <<"\\", "r">>
    ELSE IF ch = "\t" THEN <<"\\", "t">>
    ELSE IF IsControl(ch) THEN << >>
    ELSE <<ch>>

RECURSIVE ShownText(_)
ShownText(t) == IF t = << >> THEN << >> ELSE Shown(Head(t)) \o ShownText(Tail(t))

\* The input had more than logMaxLength characters.
Long(t) == Len(Runes(t)) > logMaxLength

\* The output without the truncation marker of a long input.
Unmarked(t, out) == IF Long(t) THEN SubSeq(out, 1, Len(out) - 3) ELSE out

Marked(out) == Len(out) >= 3 /\ SubSeq(out, Len(out) - 2, Len(out)) = <<".", ".", ".">>

\* C34: sanitizeForLog yields at most logMaxLength characters and then "..."
\* for an input of more than logMaxLength characters, and at most
\* logMaxLength characters and no marker for any other input; no multi-byte
\* character is split.
C34_AtMost100 ==
    san.pc = "done" =>
        /\ Long(san.input) =>
              /\ Marked(san.output)
              /\ Len(san.output) - 3 <= logMaxLength
        /\ ~Long(san.input) =>
              /\ ~Marked(san.output)
              /\ Len(san.output) <= logMaxLength
        /\ \A i \in 1..Len(san.output) : san.output[i] # BadByte

----------------------------------------------------------------------------
\* Two runs that differ in the token: a call is made and returns, the token
\* is set anew, and the same call is made again.  `other` keeps the first
\* run and the token it ran with.

\* The tokens of the two runs: none, two plain ones and one with a line feed.
RunTokens == {<< >>, <<"t">>, <<"u">>, <<"\n">>}

\* The first run is over: its outcome is kept and the caller starts again.
Retire ==
    /\ pc = "done"
    /\ other = NoCall
    /\ other' = [op |-> op, args |-> args, pc |-> pc, reqBuf |-> reqBuf,
                 attempts |-> attempts, sent |-> sent, resp |-> resp,
                 errorLog |-> errorLog, logs |-> logs, result |-> result,
                 err |-> err, delays |-> delays, token |-> client.authToken]
    /\ op' = "none"
    /\ args' = NoArgs
    /\ pc' = "idle"
    /\ reqBuf' = "nobody"
    /\ attempts' = 0
    /\ sent' = << >>
    /\ resp' = NoResp
    /\ errorLog' = << >>
    /\ logs' = << >>
    /\ result' = NilResult
    /\ err' = NoErr
    /\ delays' = << >>
    /\ UNCHANGED <<client, ctx, cli, setup, doc, san, srv>>

ReceiveTwice ==
    /\ pc = "inflight"
    /\ ReceiveOf({StatusOK, 401, 500}, {SmallBody})

NextTwice ==
    \/ \E token \in RunTokens : SetAuthToken(token)
    \/ Check(<<"a">>, CliUser, Now)
    \/ CurrentUser
    \/ Dispatch
    \/ ReceiveTwice
    \/ TimerFires
    \/ RespondCheck
    \/ RespondCurrentUser
    \/ Retire

SpecTwice == Init /\ [][NextTwice]_vars

\* Both runs are over, they were the same call, and the network and the
\* server gave the same answer to every request both runs made: the same
\* failed attempts and the same final response, or one run asked nothing.
SameRuns ==
    /\ pc = "done" /\ other.pc = "done"
    /\ op = other.op
    /\ args = other.args
    /\ \/ sent = << >>
       \/ other.sent = << >>
       \/ /\ errorLog = other.errorLog
          /\ resp = other.resp

\* The second run tells what the first told: the same diagnostic lines and
\* the same error.
SameTold ==
    /\ logs = other.logs
    /\ err = other.err

\* No diagnostic line of the call holds text t.
NotLogged(t) == \A i \in 1..Len(logs) : logs[i].a # t /\ logs[i].b # t

\* A token CurrentUser accepts and the transport can send.
Sendable(token) == token # << >> /\ ValidHeaderFieldValue(token)

\* C35 as stated: two runs that differ only in the token give the same
\* diagnostic lines and the same error.
C35_Original == SameRuns => SameTold

\* C35: the token is in no diagnostic line, and two runs that differ only in
\* the token give the same diagnostic lines and the same error when both
\* tokens are non-empty and hold no control character other than a tab.
C35_TokenNotShown ==
    /\ client.authToken # << >> => NotLogged(client.authToken)
    /\ (SameRuns /\ Sendable(client.authToken) /\ Sendable(other.token)) => SameTold

\* Two runs of Check with different tokens, each retried once and then
\* refused with status 401.
C35_Witness ==
    /\ SameRuns
    /\ op = "Check"
    /\ client.authToken = <<"u">> /\ other.token = <<"t">>
    /\ attempts = 2 /\ other.attempts = 2
    /\ Len(sent) = 2
    /\ sent # other.sent
    /\ resp.status = 401
    /\ err.kind = "api request failed with status"

----------------------------------------------------------------------------
\* C36: every call of Check returns either a result and a nil error or a nil
\* result and an error, never both and never neither; the error is nil only
\* with the result decoded from the whole body of a response of status 200,
\* and every failure (bad arguments, no response, a body that cannot be
\* read, another status, a body that does not parse) returns a nil result.
C36_ResultOrError ==
    (op = "Check" /\ pc = "done") =>
        /\ result.nil <=> err # NoErr
        /\ err # NoErr => result = NilResult
        /\ err = NoErr =>
              /\ resp.status = StatusOK
              /\ ~resp.broken
              /\ resp.content.json
              /\ resp.read = resp.len
              /\ result.actions = resp.content.actions
        /\ (resp = NoResp \/ resp.status # StatusOK \/ resp.broken \/ ~Unmarshal(resp))
              => err # NoErr

\* A retried Check whose second attempt is answered 200 with a body that is
\* no JSON: it returns an error and no result.
C36_Witness ==
    /\ op = "Check" /\ pc = "done"
    /\ attempts = 2
    /\ errorLog = <<ServerError(500)>>
    /\ resp.status = StatusOK
    /\ ~resp.content.json
    /\ err = Error("unmarshal response")
    /\ result = NilResult

----------------------------------------------------------------------------
\* checkurl with --backend=local: startLocalServer picks a port with a probe
\* listener, starts the server with that port and polls the port until a
\* connection is made; run then goes on as with any backend and signals
\* the server as it returns.

\* What main prints when startLocalServer returned an error.
LocalFailed ==
    [CliOff EXCEPT !.pc = "reported", !.local = TRUE, !.stage = "server",
                   !.error = "starting local server", !.code = 1]

\* os.Stat of the server source and lc.Listen on localhost:0.  The listener
\* is closed by a deferred call, when startLocalServer returns.
ListenProbe(found, ok) ==
    /\ cli.pc = "off" /\ pc = "idle"
    /\ srv.pc = "none"
    /\ IF found /\ ok
       THEN /\ srv' = [srv EXCEPT !.pc = "probe", !.listener = "open"]
            /\ cli' = cli
       ELSE /\ srv' = [srv EXCEPT !.pc = "failed"]
            /\ cli' = LocalFailed
    /\ UNCHANGED <<client, callVars, ctx, setup, doc, san, other>>

\* cmd.Start() of "go run ./cmd/server --port=N".
StartServer(ok) ==
    /\ srv.pc = "probe"
    /\ IF ok
       THEN /\ srv' = [srv EXCEPT !.pc = "polling", !.proc = "starting"]
            /\ cli' = cli
       ELSE /\ srv' = [srv EXCEPT !.pc = "failed", !.listener = "closed"]
            /\ cli' = LocalFailed
    /\ UNCHANGED <<client, callVars, ctx, setup, doc, san, other>>

\* The server process binds its port: the bind fails while another socket
\* listens on the port.
ServerBinds ==
    /\ srv.proc = "starting"
    /\ srv' = [srv EXCEPT !.proc = IF srv.listener = "open" THEN "exited" ELSE "listening"]
    /\ UNCHANGED <<client, callVars, ctx, cli, setup, doc, san, other>>

\* The server process ends, by itself or on a signal.
ServerExits ==
    /\ srv.proc \in {"starting", "listening"}
    /\ srv' = [srv EXCEPT !.proc = "exited"]
    /\ UNCHANGED <<client, callVars, ctx, cli, setup, doc, san, other>>

\* A socket listens on the port.
Listening(s) == s.listener = "open" \/ s.proc = "listening"

\* A tick of the poll: dialer.DialContext to localhost:N.  A connection is
\* made when something listens on the port and the dial is in time.  (The
\* test of cmd.ProcessState that follows a failed dial sees nil: nothing has
\* called cmd.Wait yet.)
Poll(inTime) ==
    /\ srv.pc = "polling"
    /\ IF Listening(srv) /\ inTime
       THEN srv' = [srv EXCEPT !.pc = "ready", !.listener = "closed"]
       ELSE srv' = srv
    /\ UNCHANGED <<client, callVars, ctx, cli, setup, doc, san, other>>

\* serverStartTimeout passes: the server is killed.
StartTimeout ==
    /\ srv.pc = "polling"
    /\ srv' = [srv EXCEPT !.pc = "failed", !.listener = "closed",
                          !.signals = Append(@, "SIGKILL")]
    /\ cli' = LocalFailed
    /\ UNCHANGED <<client, callVars, ctx, setup, doc, san, other>>

\* run finds neither a token nor a user.
LocalSetupFails ==
    /\ srv.pc = "ready"
    /\ CliSetupFails(GitHub \o PullOne, << >>, << >>, BaseURL)

\* run calls Check on the local server.
LocalCheck ==
    /\ srv.pc = "ready"
    /\ \E token \in Tokens :
         CliCheck(TRUE, token, FALSE, GitHub \o PullOne, CliUser, Now)

\* The answer to a request to the local server: no connection is made
\* unless the server listens.
ReceiveLocal ==
    /\ pc = "inflight"
    /\ IF srv.proc = "listening"
       THEN ReceiveOf({StatusOK, 500}, {SmallBody})
       ELSE /\ resp' = NoResp
            /\ AttemptFailed(IF CtxDone THEN CtxError(ctx) ELSE NetError, attempts)
            /\ UNCHANGED <<doc, san, srv, other, delays, client, op, args, ctx, reqBuf,
                           attempts, sent, cli, setup>>

NextLocal ==
    \/ \E found \in BOOLEAN, ok \in BOOLEAN : ListenProbe(found, ok)
    \/ \E ok \in BOOLEAN : StartServer(ok)
    \/ ServerBinds
    \/ ServerExits
    \/ \E inTime \in BOOLEAN : Poll(inTime)
    \/ StartTimeout
    \/ LocalSetupFails
    \/ LocalCheck
    \/ Dispatch
    \/ ReceiveLocal
    \/ TimerFires
    \/ CtxObserved
    \/ RespondCheck
    \/ Interrupt
    \/ RequestTimeout
    \/ CliReport
    \/ CliExit

SpecLocal == Init /\ [][NextLocal]_vars

\* C37: startLocalServer returns a port and the command only when the server
\* process itself accepts connections on the port.
C37_ReadyMeansServing ==
    srv.pc = "ready" => srv.proc = "listening"

----------------------------------------------------------------------------
\* Loggers: a client is made by any constructor and then given loggers with
\* SetLogger, a token being set in between.

SetLoggers == {"nil", "custom", "other"}

NextLogger ==
    \/ \E baseURL \in Backends : CallNewClient(baseURL)
    \/ CallNewDefaultClient
    \/ \E opts \in OptionLists : CallNew(opts)
    \/ \E logger \in SetLoggers : SetLogger(logger)
    \/ SetAuthToken(<<"t">>)
    \/ Drop

SpecLogger == InitNew /\ [][NextLogger]_vars

\* The options that are not WithLogger, in their order.
NotWithLogger(opts) == SelectSeq(opts, LAMBDA o : o.kind # "WithLogger")

\* This step is a call of SetLogger; its argument is setup'.logger.
SetLoggerCalled ==
    /\ setup'.logger # setup.logger
    /\ setup' = [setup EXCEPT !.logger = setup'.logger]

\* C39: the logger of a client is never nil.  A constructor installs the
\* discard logger; WithLogger(nil) leaves the logger as the options before
\* it left it and no WithLogger option touches another field; SetLogger(nil)
\* leaves the whole client as it was, and SetLogger of a logger replaces the
\* logger and nothing else.
C39_LoggerNeverNil ==
    /\ [](~client.nil => client.logger # "nil")
    /\ []((~client.nil /\ setup.logger = "none") =>
            /\ client.logger = FinalLogger(setup.opts)
            /\ setup.by = "New" =>
                 [client EXCEPT !.logger = "discard"]
                    = [New(NotWithLogger(setup.opts)).client EXCEPT !.authToken = setup.token])
    /\ [][SetLoggerCalled =>
            IF setup'.logger = "nil"
            THEN client' = client
            ELSE client' = [client EXCEPT !.logger = setup'.logger]]_vars

\* New with a logger and then WithLogger(nil), SetLogger(nil) after it: the
\* logger is still the one the first option gave.
C39_Witness ==
    /\ setup.by = "New"
    /\ setup.opts = <<WithLogger("custom"), WithLogger("nil")>>
    /\ setup.logger = "nil"
    /\ client.logger = "custom"

====
